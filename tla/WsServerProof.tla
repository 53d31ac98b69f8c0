--------------------------- MODULE WsServerProof ----------------------------
(***************************************************************************)
(* Theorems of WsServer for every set of requests, every modulus and every *)
(* bound.  The driver's own invariant is that of HttpDriverProof, whose    *)
(* lemmas are used here of the driver's part of the state.                 *)
(***************************************************************************)
EXTENDS WsServer, QueueTheorems, FiniteSetTheorems, TLAPS

DP == INSTANCE HttpDriverProof


-----------------------------------------------------------------------------
(* The driver of WsServer is the one HttpDriverProof is about.               *)

LEMMA SamePieces ==
    /\ Driver!NoReq = DP!NoReq /\ Driver!NoWeb = DP!NoWeb
    /\ Driver!WsResponses = DP!WsResponses /\ Driver!Effects = DP!Effects
    /\ Driver!Ovum = DP!Ovum
    /\ \A c, wid : Driver!Found(c, wid) <=> DP!Found(c, wid)
BY DEF Driver!NoReq, DP!NoReq, Driver!NoWeb, DP!NoWeb,
       Driver!WsResponses, DP!WsResponses, Driver!Effects, DP!Effects,
       Driver!Responses, DP!Responses, Driver!Wids, DP!Wids,
       Driver!Ovum, DP!Ovum, Driver!Tags, DP!Tags,
       Driver!Found, DP!Found, Driver!Live, DP!Live

LEMMA SameArrival ==
    ASSUME NEW c
    PROVE  /\ Driver!http_req_dispatch(c) <=> DP!http_req_dispatch(c)
           /\ Driver!http_ws_handshake(c) <=> DP!http_ws_handshake(c)
           /\ Driver!http_bad_handshake(c) <=> DP!http_bad_handshake(c)
BY DEF Driver!http_req_dispatch, DP!http_req_dispatch,
       Driver!http_ws_handshake, DP!http_ws_handshake,
       Driver!http_bad_handshake, DP!http_bad_handshake,
       Driver!Plan, DP!Plan, Driver!PlanNothing, DP!PlanNothing,
       Driver!Prepared, DP!Prepared, Driver!NoReq, DP!NoReq

LEMMA SameRequestCallback ==
    ASSUME NEW c
    PROVE  /\ Driver!http_req_timer_cb(c) <=> DP!http_req_timer_cb(c)
           /\ Driver!http_hgen_proceed(c) <=> DP!http_hgen_proceed(c)
           /\ Driver!http_req_done(c) <=> DP!http_req_done(c)
BY DEF Driver!http_req_timer_cb, DP!http_req_timer_cb,
       Driver!http_timeout_planned, DP!http_timeout_planned,
       Driver!http_timeout_ripe, DP!http_timeout_ripe,
       Driver!http_hgen_proceed, DP!http_hgen_proceed,
       Driver!http_req_done, DP!http_req_done,
       Driver!Kill, DP!Kill, Driver!KillIf, DP!KillIf,
       Driver!Answer, DP!Answer, Driver!Sent, DP!Sent,
       Driver!SendState, DP!SendState, Driver!Alive, DP!Alive,
       Driver!Detached, DP!Detached, Driver!Freed, DP!Freed,
       Driver!Rsat, DP!Rsat, Driver!Plan, DP!Plan,
       Driver!PlanNothing, DP!PlanNothing

LEMMA SameSocketCallback ==
    ASSUME NEW c, NEW ok
    PROVE  /\ Driver!h2o_upgrade_complete(c, ok)
                <=> DP!h2o_upgrade_complete(c, ok)
           /\ Driver!http_ws_message(c) <=> DP!http_ws_message(c)
           /\ Driver!http_ws_close_frame(c) <=> DP!http_ws_close_frame(c)
           /\ Driver!http_ws_dropped(c) <=> DP!http_ws_dropped(c)
BY DEF Driver!h2o_upgrade_complete, DP!h2o_upgrade_complete,
       Driver!http_ws_message, DP!http_ws_message,
       Driver!http_ws_close_frame, DP!http_ws_close_frame,
       Driver!http_ws_dropped, DP!http_ws_dropped,
       Driver!Dropped, DP!Dropped, Driver!Freed, DP!Freed,
       Driver!Alive, DP!Alive, Driver!Rsat, DP!Rsat,
       Driver!Plan, DP!Plan, Driver!PlanNothing, DP!PlanNothing

LEMMA SameWsResponse ==
    ASSUME NEW e
    PROVE  Driver!http_ws_response(e) <=> DP!http_ws_response(e)
BY DEF Driver!http_ws_response, DP!http_ws_response,
       Driver!http_ws_accept, DP!http_ws_accept,
       Driver!http_ws_reject, DP!http_ws_reject,
       Driver!http_ws_disconnect, DP!http_ws_disconnect,
       Driver!http_ws_send_message, DP!http_ws_send_message,
       Driver!WsResponses, DP!WsResponses,
       Driver!Found, DP!Found, Driver!Live, DP!Live,
       Driver!Answer, DP!Answer, Driver!Rejected, DP!Rejected,
       Driver!Closing, DP!Closing,
       Driver!Dropped, DP!Dropped, Driver!Freed, DP!Freed,
       Driver!Plan, DP!Plan, Driver!PlanNothing, DP!PlanNothing

LEMMA SameResponse ==
    ASSUME NEW e
    PROVE  Driver!http_response(e) <=> DP!http_response(e)
BY DEF Driver!http_response, DP!http_response,
       Driver!http_start_respond, DP!http_start_respond,
       Driver!http_continue_respond, DP!http_continue_respond,
       Driver!http_cancel_respond, DP!http_cancel_respond,
       Driver!Answer, DP!Answer, Driver!Sent, DP!Sent,
       Driver!SendState, DP!SendState, Driver!Alive, DP!Alive,
       Driver!Detached, DP!Detached, Driver!Freed, DP!Freed,
       Driver!Rsat, DP!Rsat, Driver!PlanNothing, DP!PlanNothing

LEMMA SameConfiguration ==
    /\ Driver!http_ef_form <=> DP!http_ef_form
    /\ Driver!http_serv_close_cb <=> DP!http_serv_close_cb
BY DEF Driver!http_ef_form, DP!http_ef_form,
       Driver!http_serv_close_cb, DP!http_serv_close_cb,
       Driver!http_serv_start_all, DP!http_serv_start_all,
       Driver!http_ws_close_all, DP!http_ws_close_all,
       Driver!Rejected, DP!Rejected, Driver!Freed, DP!Freed,
       Driver!Closing, DP!Closing, Driver!PlanNothing, DP!PlanNothing

LEMMA SameIgnored ==
    ASSUME NEW e
    PROVE  Driver!Ignored(e) <=> DP!Ignored(e)
<1>1. \A tag : Driver!Heeds(tag) = DP!Heeds(tag)
  BY Zenon DEF Driver!Heeds, DP!Heeds
<1>2. \A c : Driver!Alive(c) <=> DP!Alive(c)
  BY DEF Driver!Alive, DP!Alive, Driver!Rsat, DP!Rsat
<1>3. /\ Driver!WsResponses = DP!WsResponses
      /\ \A c, wid : Driver!Found(c, wid) <=> DP!Found(c, wid)
  BY SamePieces
<1> QED
  BY <1>1, <1>2, <1>3, Zenon DEF Driver!Ignored, DP!Ignored

LEMMA SameEffect ==
    ASSUME NEW e
    PROVE  Driver!http_ef_http_server(e) <=> DP!http_ef_http_server(e)
BY SameWsResponse, SameResponse, SameConfiguration, SameIgnored
DEF Driver!http_ef_http_server, DP!http_ef_http_server,
    Driver!PlanNothing, DP!PlanNothing

-----------------------------------------------------------------------------

\* The gifts of a fact: one for every subscriber.
LEMMA GiftsOfFact ==
    ASSUME NEW S, IsFiniteSet(S), NEW ducts \in Eyre!SetToSeqs(S)
    PROVE  /\ ducts \in Seq(S)
           /\ \A x : S = {x} => ducts = <<x>>
<1>1. Cardinality(S) \in Nat
  BY FS_CardinalityType
<1>2. ducts \in [1 .. Cardinality(S) -> S]
  BY DEF Eyre!SetToSeqs, Eyre!Cardinality, Cardinality
<1>3. ducts \in Seq(S)
  BY <1>1, <1>2
<1>4. ASSUME NEW x, S = {x} PROVE ducts = <<x>>
  <2>1. Cardinality(S) = 1
    BY <1>4, FS_Singleton
  <2> QED
    BY <1>2, <1>4, <2>1
<1> QED
  BY <1>3, <1>4

-----------------------------------------------------------------------------
(* The invariant. *)

Started(w) == w.sat # "none"

Owns(c, wid) == Started(web[c]) /\ web[c].wid = wid

\* Events of a session, as against those of a request.
SessionTags == {"websocket-handshake", "message", "disconnect"}

Born == [tag |-> "born"]

Queued(tag, c) == \E o \in In(ova) : o.tag = tag /\ o.req = c
Given(tag, c) == \E e \in In(eff) : e.tag = tag /\ e.req = c

TypesOK ==
    /\ conn \in [Reqs -> {"none", "new", "started"}]
    /\ sub \in [Reqs -> 0 .. (WidMod - 1)]
    /\ app \in [Eyre!Wids -> {"unknown", "asked", "accepted", "ended"}]
    /\ eff \in Seq(DP!Effects)
    /\ ova \in Seq(DP!Ovum \cup {Born})
    /\ IsFiniteSet({c \in Reqs : sub[c] # 0})
    /\ restarts \in Nat

\* %born is the first event of a process, and what the other events say
\* happened did.
QueueInv ==
    /\ \A i \in DOMAIN ova : ova[i].tag = "born" => i = 1
    /\ \A o \in In(ova) : o.tag # "born" =>
          /\ o.tag \in told[o.req]
          /\ o.tag = "request" => o.req \in PlainReqs

\* An id that eyre, Gall or a queue pairs with a duct is the duct's own.
Routed ==
    /\ \A c \in Reqs : Started(web[c]) => c \in WsReqs
    /\ \A c \in Reqs : sub[c] # 0 => Owns(c, sub[c])
    /\ \A e \in In(eff) : e.tag \in DP!WsResponses => Owns(e.req, e.wid)
    /\ \A o \in In(ova) : o.tag \in SessionTags => Owns(o.req, o.wid)

\* The agent has accepted the handshake of the duct.
Accepted(c) ==
    Given("accept", c) \/ web[c].sat = "open" \/ Queued("message", c)

\* Before %born is taken the kernel has heard of no session.
Unborn ==
    Born \in In(ova) =>
       \A c \in Reqs : conn[c] = "none" /\ sub[c] = 0 /\ ~Accepted(c)

HandshakeAt(i, c) ==
    i \in DOMAIN ova /\ ova[i].tag = "websocket-handshake" /\ ova[i].req = c

\* Before the handshake is taken the kernel has not heard of the session.
Unasked(c) ==
    /\ Queued("websocket-handshake", c) =>
          conn[c] = "none" /\ sub[c] = 0 /\ ~Accepted(c) /\ ~Given("reject", c)
    /\ \A i, j : HandshakeAt(i, c) /\ HandshakeAt(j, c) => i = j

\* Eyre's connection and the agent's account of the session agree.
Remembered(c) ==
    LET w == web[c].wid IN
    /\ c \in WsReqs /\ ~Started(web[c]) => conn[c] = "none"
    /\ Started(web[c]) /\ conn[c] # "none"
         => sub[c] = w /\ app[w] \in {"asked", "accepted"}
    /\ sub[c] # 0 /\ app[w] = "asked" /\ conn[c] = "none"
         => told[c] \cap {"cancel-request", "disconnect"} # {}

\* The answer to a handshake is given once.
Answered(c) ==
    LET w == web[c].wid IN
    /\ Started(web[c]) /\ Accepted(c) => app[w] # "asked"
    /\ Given("reject", c) => /\ ~Given("accept", c) /\ web[c].sat # "open"
                             /\ app[w] # "asked"

\* A session that is open, or that the next effects may open, is known to eyre
\* or its end is on the way.
Known(c) ==
    /\ fault = "none"
    /\ \/ web[c].sat = "open"
       \/ web[c].sat = "pending" /\ h2o[c] = "idle" /\ Given("accept", c)
    => conn[c] # "none" \/ Given("reject", c) \/ Given("disconnect", c)

SessionOK(c) == Unasked(c) /\ Remembered(c) /\ Answered(c) /\ Known(c)

\* Only the first process, while its ids last, can say whose an id is.
IInv ==
    /\ DP!IInv
    /\ TypesOK
    /\ QueueInv
    /\ KnownIsCurrent
    /\ restarts = 0 => Routed
    /\ restarts = 0 /\ births < WidMod
         => Unborn /\ \A c \in Reqs : SessionOK(c)

-----------------------------------------------------------------------------
(* What the steps are to the driver. *)

\* A step of the kernel.
Quiet ==
    out' = {} /\ UNCHANGED <<req, web, h2o, wid_l, births, serv, told, fault>>

LEMMA QuietKeeps == ASSUME DP!IInv, Quiet PROVE DP!IInv'
BY DEF Quiet, DP!IInv, DP!TypeOK, DP!PairInv, DP!CounterInv, DP!ReportInv

LEMMA Choice ==
    ASSUME NEW S, S # {} PROVE (CHOOSE o \in S : TRUE) \in S
OBVIOUS

LEMMA Enqueued ==
    ASSUME Enqueue
    PROVE  ova' = ova \/ \E o \in out' : ova' = Append(ova, o)
BY Choice DEF Enqueue

\* What a callback, a closed server and an effect have in common.
Moves ==
    /\ DP!IInv'
    /\ births' = births
    /\ DP!Announced
    /\ \A o \in out' : DP!Reported(o)
    /\ ova' = ova \/ \E o \in out' : ova' = Append(ova, o)
    /\ \A c \in Reqs :
         /\ Started(web'[c]) <=> Started(web[c])
         /\ web'[c].wid = web[c].wid
         /\ web'[c].sat = "pending" => web[c].sat = "pending"
         /\ h2o'[c] = "idle" => h2o[c] = "idle"
    /\ UNCHANGED <<conn, sub, app, restarts>>

LEMMA CallbackMoves ==
    ASSUME DP!IInv, Running, NEW c \in Reqs, Callback(c)
    PROVE  /\ Moves /\ eff' = eff
           /\ \A d \in Reqs : web'[d].sat = "open" => web[d].sat = "open"
<1>1. DP!Callback(c)
  BY SameRequestCallback, SameSocketCallback DEF Callback, DP!Callback
<1>2. DP!Next
  BY <1>1 DEF DP!Next, Running
<1>3. DP!IInv'
  BY <1>2, DP!NextInv, WidModAssumption
<1>4. DP!TypeOK /\ DP!PairInv
  BY DEF DP!IInv
<1>5. DP!Announced /\ \A o \in out' : DP!Reported(o)
  BY <1>1, <1>4, DP!CallbackAnnounced, WidModAssumption
<1>6. births' = births /\ \A d \in Reqs : DP!Aged(web'[d], web[d])
  BY <1>1, <1>4, DP!CallbackSessions, WidModAssumption
<1>7. \A d \in Reqs : /\ Started(web'[d]) <=> Started(web[d])
                      /\ web'[d].wid = web[d].wid
                      /\ web'[d].sat = "pending" => web[d].sat = "pending"
                      /\ web'[d].sat = "open" => web[d].sat = "open"
  BY <1>4, <1>6, DP!AgedKeeps, WidModAssumption DEF Started
<1>8. \A d \in Reqs : h2o'[d] = "idle" => h2o[d] = "idle"
  <2>1. [tag |-> "set-config"] \in DP!Effects
    BY DEF DP!Effects
  <2> QED
    BY <1>1, <1>4, <2>1, DP!AnswersStay, WidModAssumption
<1>9. ova' = ova \/ \E o \in out' : ova' = Append(ova, o)
  BY Enqueued DEF Callback
<1>10. UNCHANGED <<conn, sub, app, eff, restarts>>
  BY DEF Callback, eyreVars
<1> QED
  BY <1>3, <1>5, <1>6, <1>7, <1>8, <1>9, <1>10 DEF Moves

LEMMA ReconfigureMoves ==
    ASSUME DP!IInv, Running, Reconfigure
    PROVE  /\ Moves /\ eff' = eff
           /\ \A d \in Reqs : web'[d].sat = "open" => web[d].sat = "open"
<1> DEFINE e == [tag |-> "set-config"]
<1>1. DP!http_serv_close_cb /\ e \in DP!Effects
  BY SameConfiguration DEF Reconfigure, DP!Effects
<1>2. DP!IInv'
  BY <1>1, DP!NextInv, WidModAssumption DEF DP!Next, Running
<1>3. DP!TypeOK /\ DP!PairInv
  BY DEF DP!IInv
<1>4. DP!Announced /\ \A o \in out' : DP!Reported(o)
  BY <1>1, <1>3, DP!EffectAnnounced, WidModAssumption
<1>5. births' = births /\ \A d \in Reqs : \/ DP!Aged(web'[d], web[d])
                                          \/ e.tag = "accept"
  BY <1>1, <1>3, DP!EffectSessions, WidModAssumption
<1>6. \A d \in Reqs : DP!Aged(web'[d], web[d])
  BY <1>5
<1>7. \A d \in Reqs : /\ Started(web'[d]) <=> Started(web[d])
                      /\ web'[d].wid = web[d].wid
                      /\ web'[d].sat = "pending" => web[d].sat = "pending"
                      /\ web'[d].sat = "open" => web[d].sat = "open"
  BY <1>3, <1>6, DP!AgedKeeps, WidModAssumption DEF Started
<1>8. \A d \in Reqs : h2o'[d] = "idle" => h2o[d] = "idle"
  <2> TAKE d \in Reqs
  <2> QED
    BY <1>1, <1>3, DP!AnswersStay, WidModAssumption
<1>9. UNCHANGED <<conn, sub, app, eff, ova, restarts>>
  BY DEF Reconfigure, eyreVars
<1> QED
  BY <1>2, <1>4, <1>5, <1>7, <1>8, <1>9 DEF Moves

LEMMA ReleaseMoves ==
    ASSUME DP!IInv, TypesOK, Running, Release
    PROVE  /\ Moves /\ eff # <<>> /\ eff' = Tail(eff)
           /\ Head(eff) \in DP!Effects /\ DP!http_ef_http_server(Head(eff))
           /\ \A d \in Reqs : web'[d].sat = "open" =>
                \/ web[d].sat = "open"
                \/ /\ Head(eff).tag = "accept" /\ DP!Found(d, Head(eff).wid)
                   /\ web[d].sat = "pending"
                   /\ fault' = "none" => h2o[d] = "idle"
<1> DEFINE e == Head(eff)
<1>1. /\ DP!http_ef_http_server(e) /\ e \in DP!Effects
      /\ eff # <<>> /\ eff' = Tail(eff)
  BY SameEffect, InTail DEF Release, TypesOK
<1> HIDE DEF e
<1>2. DP!IInv'
  <2>1. DP!Next
    BY <1>1 DEF DP!Next, Running
  <2> QED
    BY <2>1, DP!NextInv, WidModAssumption
<1>3. DP!TypeOK /\ DP!PairInv
  BY DEF DP!IInv
<1>4. DP!Announced /\ \A o \in out' : DP!Reported(o)
  BY <1>1, <1>3, DP!EffectAnnounced, WidModAssumption
<1>5. births' = births
      /\ \A d \in Reqs : \/ DP!Aged(web'[d], web[d])
                         \/ /\ DP!Opened(web'[d], web[d])
                            /\ e.tag = "accept" /\ DP!Found(d, e.wid)
  BY <1>1, <1>3, DP!EffectSessions, WidModAssumption
<1>6. \A d \in Reqs : /\ Started(web'[d]) <=> Started(web[d])
                      /\ web'[d].wid = web[d].wid
                      /\ web'[d].sat = "pending" => web[d].sat = "pending"
  BY <1>3, <1>5, DP!AgedKeeps, WidModAssumption DEF Started
<1>7. ASSUME NEW d \in Reqs, web'[d].sat = "open", web[d].sat # "open"
      PROVE  /\ e.tag = "accept" /\ DP!Found(d, e.wid)
             /\ web[d].sat = "pending"
             /\ fault' = "none" => h2o[d] = "idle"
  <2>1. ~DP!Aged(web'[d], web[d])
    BY <1>3, <1>5, <1>7, DP!AgedKeeps, WidModAssumption
  <2>2. DP!Opened(web'[d], web[d]) /\ e.tag = "accept" /\ DP!Found(d, e.wid)
    BY <1>5, <2>1
  <2>3. fault' = "none" => h2o[d] = "idle"
    BY <1>1, <1>3, <2>2, DP!OpenedAnswers, WidModAssumption DEF Running
  <2> QED
    BY <2>2, <2>3 DEF DP!Opened
<1>8. \A d \in Reqs : h2o'[d] = "idle" => h2o[d] = "idle"
  <2> TAKE d \in Reqs
  <2> QED
    BY <1>1, <1>3, DP!AnswersStay, WidModAssumption
<1>9. ova' = ova \/ \E o \in out' : ova' = Append(ova, o)
  BY Enqueued DEF Release
<1>10. UNCHANGED <<conn, sub, app, restarts>>
  BY DEF Release
<1> QED
  BY <1>1, <1>2, <1>4, <1>5, <1>6, <1>7, <1>8, <1>9, <1>10 DEF Moves, e

-----------------------------------------------------------------------------
(* Queues, typing and KnownIsCurrent: for any number of restarts.            *)

LEMMA OvumFields ==
    ASSUME NEW o \in DP!Ovum
    PROVE  /\ o.tag \in DP!Tags /\ o.tag # "born" /\ o # Born
           /\ o.req \in Reqs /\ o.wid \in 0 .. (WidMod - 1)
BY DEF DP!Ovum, DP!Tags, Born

LEMMA OvumOrBorn ==
    ASSUME NEW o \in DP!Ovum \cup {Born}
    PROVE  o.tag = "born" <=> o = Born
BY OvumFields DEF Born

\* What the queue of events becomes in a step of the driver.
Appends(o) ==
    /\ In(ova') = In(ova) \cup {o}
    /\ \A i \in DOMAIN ova' : \/ i \in DOMAIN ova /\ ova'[i] = ova[i]
                              \/ i = Len(ova) + 1 /\ ova'[i] = o

LEMMA QueueAppends ==
    ASSUME TypesOK, QueueInv, NEW o \in DP!Ovum, ova' = Append(ova, o),
           o.tag \in told'[o.req], o.tag = "request" => o.req \in PlainReqs,
           \A c \in Reqs : told[c] \subseteq told'[c]
    PROVE  QueueInv' /\ ova' \in Seq(DP!Ovum \cup {Born}) /\ Appends(o)
<1>1. ova \in Seq(DP!Ovum \cup {Born})
  BY DEF TypesOK
<1>2. ova' \in Seq(DP!Ovum \cup {Born}) /\ In(ova') = In(ova) \cup {o}
  BY <1>1, InAppend
<1>3. \A i \in DOMAIN ova' : \/ i \in DOMAIN ova /\ ova'[i] = ova[i]
                             \/ i = Len(ova) + 1 /\ ova'[i] = o
  BY <1>1
<1>4. \A p \in In(ova) : p \in DP!Ovum \cup {Born}
  BY <1>1 DEF In
<1>5. \A i \in DOMAIN ova' : ova'[i].tag = "born" => i = 1
  BY <1>3, OvumFields DEF QueueInv
<1>6. ASSUME NEW p \in In(ova'), p.tag # "born"
      PROVE  /\ p.tag \in told'[p.req]
             /\ p.tag = "request" => p.req \in PlainReqs
  <2>1. CASE p \in In(ova)
    <3>1. p.req \in Reqs
      BY <1>4, <1>6, <2>1, OvumFields DEF Born
    <3> QED
      BY <1>6, <2>1, <3>1 DEF QueueInv
  <2> QED
    BY <1>2, <1>6, <2>1
<1> QED
  BY <1>2, <1>3, <1>5, <1>6 DEF QueueInv, Appends

LEMMA QueueTakes ==
    ASSUME TypesOK, QueueInv, ova # <<>>, ova' = Tail(ova), told' = told
    PROVE  /\ QueueInv' /\ ova' \in Seq(DP!Ovum \cup {Born})
           /\ In(ova) = {Head(ova)} \cup In(ova')
           /\ Head(ova) \in In(ova) /\ Head(ova) \in DP!Ovum \cup {Born}
           /\ \A o \in In(ova') : o.tag # "born"
<1>1. /\ ova' \in Seq(DP!Ovum \cup {Born})
      /\ Head(ova) \in DP!Ovum \cup {Born}
      /\ In(ova) = {Head(ova)} \cup In(ova')
      /\ \A i \in DOMAIN ova' : i + 1 \in DOMAIN ova /\ i + 1 # 1
                                  /\ ova'[i] = ova[i + 1]
  BY InTail DEF TypesOK
<1>2. \A i \in DOMAIN ova' : ova'[i].tag # "born"
  BY <1>1 DEF QueueInv
<1>3. \A o \in In(ova') : o.tag # "born"
  BY <1>2 DEF In
<1> QED
  BY <1>1, <1>2, <1>3 DEF QueueInv

\* KnownIsCurrent, of the elements of the queue.
LEMMA KnownIn ==
    KnownIsCurrent <=>
      (Born \in In(ova) \/ (\E o \in In(ova) : o.tag = "born")
         \/ \A c \in Reqs : conn[c] # "none"
              => told[c] \cap {"request", "websocket-handshake"} # {})
BY DEF KnownIsCurrent, In, Born

LEMMA MovesBase ==
    ASSUME TypesOK, QueueInv, KnownIsCurrent, Moves,
           eff' = eff \/ (eff # <<>> /\ eff' = Tail(eff))
    PROVE  /\ TypesOK' /\ QueueInv' /\ KnownIsCurrent'
           /\ \/ ova' = ova
              \/ \E o \in DP!Ovum : DP!Reported(o) /\ Appends(o)
<1>1. eff' \in Seq(DP!Effects)
  <2>1. eff \in Seq(DP!Effects)
    BY DEF TypesOK
  <2> QED
    BY <2>1, InTail
<1>2. \A c \in Reqs : told[c] \subseteq told'[c]
  BY DEF Moves, DP!Announced
<1>3. CASE ova' = ova
  <2>1. TypesOK'
    BY <1>1, <1>3 DEF TypesOK, Moves
  <2>2. \A p \in In(ova) : p.tag # "born" => p.req \in Reqs
    BY OvumFields DEF TypesOK, In, Born
  <2>3. QueueInv'
    BY <1>2, <1>3, <2>2 DEF QueueInv, In
  <2>4. KnownIsCurrent'
    BY <1>2, <1>3 DEF KnownIsCurrent, Moves
  <2> QED
    BY <1>3, <2>1, <2>3, <2>4
<1>4. ASSUME NEW o \in out', ova' = Append(ova, o)
      PROVE  /\ TypesOK' /\ QueueInv' /\ KnownIsCurrent'
             /\ o \in DP!Ovum /\ DP!Reported(o) /\ Appends(o)
  <2>1. o \in DP!Ovum /\ o.tag \in told'[o.req] /\ DP!Reported(o)
    BY <1>4 DEF Moves, DP!Announced
  <2>2. o.tag # "request"
    BY <2>1 DEF DP!Reported
  <2>3. QueueInv' /\ ova' \in Seq(DP!Ovum \cup {Born}) /\ Appends(o)
    BY <1>2, <1>4, <2>1, <2>2, QueueAppends
  <2>4. TypesOK'
    BY <1>1, <2>3 DEF TypesOK, Moves
  <2>5. KnownIsCurrent'
    <3>1. KnownIsCurrent' <=>
            (\/ Born \in In(ova') \/ \E p \in In(ova') : p.tag = "born"
             \/ \A c \in Reqs : conn'[c] # "none"
                  => told'[c] \cap {"request", "websocket-handshake"} # {})
      BY DEF KnownIsCurrent, In, Born
    <3> QED
      BY <1>2, <2>3, <3>1, KnownIn DEF Moves, Appends
  <2> QED
    BY <2>1, <2>3, <2>4, <2>5
<1> QED
  BY <1>3, <1>4 DEF Moves

\* What an arrival is to the driver, to eyre and to the queue.
LEMMA ArriveKeeps ==
    ASSUME DP!IInv, TypesOK, Running, NEW c \in Reqs, Arrive(c)
    PROVE  /\ DP!IInv' /\ DP!Announced
           /\ UNCHANGED <<conn, sub, app, eff, restarts>>
           /\ req[c].st = "free" /\ \A d \in Reqs \ {c} : web'[d] = web[d]
           /\ \A d \in Reqs : h2o'[d] = "idle" => h2o[d] = "idle"
           /\ \/ c \in PlainReqs /\ DP!http_req_dispatch(c)
              \/ c \in WsReqs /\ DP!http_ws_handshake(c)
              \/ c \in WsReqs /\ DP!http_bad_handshake(c)
           /\ ova' = ova \/ \E o \in out' : ova' = Append(ova, o)
<1>1. \/ c \in PlainReqs /\ DP!http_req_dispatch(c)
      \/ c \in WsReqs /\ DP!http_ws_handshake(c)
      \/ c \in WsReqs /\ DP!http_bad_handshake(c)
  BY SameArrival DEF Arrive
<1>2. DP!IInv'
  BY <1>1, DP!NextInv, WidModAssumption
  DEF DP!Next, DP!http_rec_accept, Running
<1>3. DP!TypeOK
  BY DEF DP!IInv
<1>4. DP!Announced
  <2>1. CASE DP!http_req_dispatch(c)
    <3>1. "request" \in DP!Tags /\ 0 \in 0 .. (WidMod - 1)
      BY WidModAssumption DEF DP!Tags
    <3> QED
      BY <1>3, <2>1, <3>1, DP!PlanAnnounced, WidModAssumption
      DEF DP!http_req_dispatch
  <2>2. CASE DP!http_ws_handshake(c)
    <3> DEFINE wid == IF wid_l = 0 THEN 1 ELSE wid_l
    <3>1. "websocket-handshake" \in DP!Tags /\ wid \in 0 .. (WidMod - 1)
      BY <1>3, WidModAssumption DEF DP!Tags, DP!TypeOK
    <3>2. DP!Plan("websocket-handshake", c, wid)
      BY <2>2 DEF DP!http_ws_handshake
    <3> HIDE DEF wid
    <3> QED
      BY <1>3, <3>1, <3>2, DP!PlanAnnounced, WidModAssumption
  <2>3. CASE DP!http_bad_handshake(c)
    BY <1>3, <2>3, DP!PlanNothingAnnounced, WidModAssumption
    DEF DP!http_bad_handshake
  <2> QED
    BY <1>1, <2>1, <2>2, <2>3
<1>5. /\ req[c].st = "free" /\ \A d \in Reqs \ {c} : web'[d] = web[d]
      /\ \A d \in Reqs : h2o'[d] = "idle" => h2o[d] = "idle"
  BY <1>1, <1>3 DEF DP!http_req_dispatch, DP!http_ws_handshake,
                    DP!http_bad_handshake, DP!TypeOK
<1>6. ova' = ova \/ \E o \in out' : ova' = Append(ova, o)
  BY Enqueued DEF Arrive
<1>7. UNCHANGED <<conn, sub, app, eff, restarts>>
  BY DEF Arrive, eyreVars
<1> QED
  BY <1>1, <1>2, <1>4, <1>5, <1>6, <1>7

LEMMA ArriveBase ==
    ASSUME DP!IInv, TypesOK, QueueInv, KnownIsCurrent, Running,
           NEW c \in Reqs, Arrive(c)
    PROVE  /\ TypesOK' /\ QueueInv' /\ KnownIsCurrent'
           /\ \/ ova' = ova
              \/ \E o \in DP!Ovum : o \in out' /\ Appends(o)
<1>1. /\ DP!Announced /\ UNCHANGED <<conn, sub, app, eff, restarts>>
      /\ \/ c \in PlainReqs /\ DP!http_req_dispatch(c)
         \/ DP!http_ws_handshake(c)
         \/ DP!http_bad_handshake(c)
      /\ ova' = ova \/ \E o \in out' : ova' = Append(ova, o)
  BY ArriveKeeps
<1>2. \A d \in Reqs : told[d] \subseteq told'[d]
  BY <1>1 DEF DP!Announced
<1>3. CASE ova' = ova
  <2>1. TypesOK'
    BY <1>1, <1>3 DEF TypesOK
  <2>2. \A p \in In(ova) : p.tag # "born" => p.req \in Reqs
    BY OvumFields DEF TypesOK, In, Born
  <2>3. QueueInv'
    BY <1>2, <1>3, <2>2 DEF QueueInv, In
  <2>4. KnownIsCurrent'
    BY <1>1, <1>2, <1>3 DEF KnownIsCurrent
  <2> QED
    BY <1>3, <2>1, <2>3, <2>4
<1>4. ASSUME NEW o \in out', ova' = Append(ova, o)
      PROVE  /\ TypesOK' /\ QueueInv' /\ KnownIsCurrent'
             /\ o \in DP!Ovum /\ Appends(o)
  <2>1. o \in DP!Ovum /\ o.tag \in told'[o.req]
    BY <1>1 DEF DP!Announced
  <2>2. o.tag = "request" => o.req \in PlainReqs
    BY <1>1 DEF DP!http_req_dispatch, DP!http_ws_handshake,
                DP!http_bad_handshake, DP!Plan, DP!PlanNothing
  <2>3. QueueInv' /\ ova' \in Seq(DP!Ovum \cup {Born}) /\ Appends(o)
    BY <1>2, <1>4, <2>1, <2>2, QueueAppends
  <2>4. TypesOK'
    BY <1>1, <2>3 DEF TypesOK
  <2>5. KnownIsCurrent'
    <3>1. KnownIsCurrent' <=>
            (\/ Born \in In(ova') \/ \E p \in In(ova') : p.tag = "born"
             \/ \A d \in Reqs : conn'[d] # "none"
                  => told'[d] \cap {"request", "websocket-handshake"} # {})
      BY DEF KnownIsCurrent, In, Born
    <3> QED
      BY <1>1, <1>2, <2>3, <3>1, KnownIn DEF Appends
  <2> QED
    BY <2>1, <2>3, <2>4, <2>5
<1> QED
  BY <1>1, <1>3, <1>4

LEMMA RestartBase ==
    ASSUME DP!IInv, TypesOK, Restart
    PROVE  DP!IInv' /\ TypesOK' /\ QueueInv' /\ KnownIsCurrent' /\ restarts' # 0
<1>1. ova' = <<Born>> /\ Born \in DP!Ovum \cup {Born}
  BY DEF Restart, Born
<1>2. ova' \in Seq(DP!Ovum \cup {Born}) /\ In(ova') = {Born}
  BY <1>1, InOne
<1>3. /\ eff' = <<>> /\ restarts' = restarts + 1 /\ told' \in [Reqs -> SUBSET {}]
      /\ UNCHANGED <<conn, sub, app>>
  BY DEF Restart
<1>4. TypesOK' /\ restarts' # 0
  BY <1>2, <1>3 DEF TypesOK
<1>5. QueueInv' /\ KnownIsCurrent'
  BY <1>1, <1>2 DEF QueueInv, KnownIsCurrent, Born
<1> DEFINE done == [Driver!NoReq EXCEPT !.st = "done"]
<1>6. /\ done \in DP!HReq /\ done.st = "done" /\ ~done.wsu
      /\ Driver!NoWeb \in DP!HWs /\ Driver!NoWeb.sat = "none"
      /\ Driver!NoWeb.woc = "none" /\ ~Driver!NoWeb.req
  <2>1. Driver!NoReq \in DP!HReq /\ ~Driver!NoReq.wsu
    BY DEF Driver!NoReq, DP!HReq
  <2>2. done \in DP!HReq /\ done.st = "done" /\ ~done.wsu
    BY <2>1 DEF DP!HReq
  <2>3. /\ Driver!NoWeb \in DP!HWs /\ Driver!NoWeb.sat = "none"
        /\ Driver!NoWeb.woc = "none" /\ ~Driver!NoWeb.req
    BY WidModAssumption DEF Driver!NoWeb, DP!HWs
  <2> QED
    BY <2>2, <2>3
<1>7. /\ req' = [c \in Reqs |-> IF req[c].st = "free" THEN req[c] ELSE done]
      /\ web' = [c \in Reqs |-> Driver!NoWeb]
      /\ h2o' = [c \in Reqs |-> IF req[c].st = "free" THEN "idle" ELSE "final"]
      /\ told' = [c \in Reqs |-> {}]
  BY DEF Restart
<1> HIDE DEF done
<1>8. DP!TypeOK'
  <2>1. req' \in [Reqs -> DP!HReq] /\ web' \in [Reqs -> DP!HWs]
    BY <1>6, <1>7 DEF DP!IInv, DP!TypeOK
  <2>2. h2o' \in [Reqs -> DP!H2o] /\ told' \in [Reqs -> SUBSET DP!Tags]
    BY <1>7 DEF DP!H2o
  <2> QED
    BY <2>1, <2>2, WidModAssumption
    DEF Restart, DP!TypeOK, DP!Servs, DP!Faults
<1>11. DP!PairInv'
  <2> SUFFICES ASSUME NEW c \in Reqs
               PROVE  /\ DP!RequestOK(req'[c], web'[c], h2o'[c])
                      /\ DP!SessionOK(req'[c], web'[c], told'[c])
    BY DEF DP!PairInv
  <2>1. CASE req[c].st = "free"
    <3>1. DP!RequestOK(req[c], web[c], h2o[c])
      BY DEF DP!IInv, DP!PairInv
    <3>2. ~req[c].wsu /\ ~req[c].red
      BY <2>1, <3>1 DEF DP!RequestOK
    <3> QED
      BY <1>6, <1>7, <2>1, <3>2
      DEF DP!RequestOK, DP!SessionOK, DP!Rsat, DP!Live
  <2>2. CASE req[c].st # "free"
    BY <1>6, <1>7, <2>2 DEF DP!RequestOK, DP!SessionOK, DP!Rsat, DP!Live
  <2> QED
    BY <2>1, <2>2
<1>9. DP!CounterInv'
  BY <1>6, <1>7 DEF Restart, DP!CounterInv
<1>10. DP!ReportInv'
  BY <1>6, <1>7 DEF DP!ReportInv, DP!ReportOK, DP!Rsat
<1> QED
  BY <1>4, <1>5, <1>8, <1>9, <1>10, <1>11 DEF DP!IInv

-----------------------------------------------------------------------------
(* What the kernel gives. *)

\* The kernel's step leaves the queue of effects with G in addition.
Gives(G) == eff' \in Seq(DP!Effects) /\ In(eff') = In(eff) \cup G

LEMMA GivesOne ==
    ASSUME TypesOK, NEW e \in DP!Effects, Eyre!Give(<<e>>)
    PROVE  Gives({e})
<1> DEFINE gifts == <<e>>
<1>1. gifts \in Seq(DP!Effects) /\ In(gifts) = {e}
  BY InOne
<1>2. eff' = eff \o gifts
  BY DEF Eyre!Give
<1> HIDE DEF gifts
<1> QED
  BY <1>1, <1>2, InConcat DEF TypesOK, Gives

LEMMA PlainGifts ==
    ASSUME NEW c \in Reqs, NEW b \in BOOLEAN, NEW d \in BOOLEAN,
           NEW e \in {Eyre!Start(c, b), Eyre!Continue(c, d, b), Eyre!Cancel(c),
                      [tag |-> "set-config"]}
    PROVE  e \in DP!Effects
           /\ e.tag \notin {"accept", "reject", "disconnect", "message"}
<1>1. /\ Eyre!Start(c, b) \in DP!Effects /\ Eyre!Continue(c, d, b) \in DP!Effects
      /\ Eyre!Cancel(c) \in DP!Effects /\ [tag |-> "set-config"] \in DP!Effects
  BY DEF Eyre!Start, Eyre!Continue, Eyre!Cancel, DP!Effects, DP!Responses
<1>2. /\ Eyre!Start(c, b).tag = "start" /\ Eyre!Continue(c, d, b).tag = "continue"
      /\ Eyre!Cancel(c).tag = "cancel"
  BY DEF Eyre!Start, Eyre!Continue, Eyre!Cancel
<1> QED
  BY <1>1, <1>2

Gift(tag, c, w) == [tag |-> tag, req |-> c, wid |-> w]

LEMMA SubscribersFinite ==
    ASSUME TypesOK, NEW w \in Eyre!Wids, NEW S \in SUBSET Eyre!Subscribers(w)
    PROVE  IsFiniteSet(S) /\ S \subseteq Reqs /\ \A c \in S : sub[c] = w /\ w # 0
<1>1. w # 0
  BY WidModAssumption DEF Eyre!Wids
<1>2. S \subseteq {c \in Reqs : sub[c] # 0}
  BY <1>1 DEF Eyre!Subscribers
<1> QED
  BY <1>1, <1>2, FS_Subset DEF TypesOK, Eyre!Subscribers

\* A fact of the agent is given to every subscriber, and to no other duct.
LEMMA FactGifts ==
    ASSUME TypesOK, NEW w \in Eyre!Wids, NEW tag \in DP!WsResponses,
           NEW S \in SUBSET Eyre!Subscribers(w),
           NEW ducts \in Eyre!SetToSeqs(S),
           Eyre!Give([i \in DOMAIN ducts |->
                        [tag |-> tag, req |-> ducts[i], wid |-> w]])
    PROVE  \E G : /\ Gives(G)
                  /\ \A e \in G : \E c \in S : e = Gift(tag, c, w)
                  /\ \A c : S = {c} => Gift(tag, c, w) \in G
<1> DEFINE gifts == [i \in DOMAIN ducts |-> Gift(tag, ducts[i], w)]
<1>1. ducts \in Seq(S) /\ \A c : S = {c} => ducts = <<c>>
  BY SubscribersFinite, GiftsOfFact
<1>2. S \subseteq Reqs
  BY SubscribersFinite
<1>3. \A c \in S : Gift(tag, c, w) \in DP!Effects
  BY <1>2 DEF Gift, DP!Effects, Eyre!Wids, DP!Wids
<1>4. gifts \in Seq(DP!Effects)
  BY <1>1, <1>3
<1>5. eff' = eff \o gifts
  BY DEF Eyre!Give, Gift
<1>6. \A e \in In(gifts) : \E c \in S : e = Gift(tag, c, w)
  BY <1>1 DEF In
<1>7. ASSUME NEW c, S = {c} PROVE Gift(tag, c, w) \in In(gifts)
  <2>1. ducts = <<c>>
    BY <1>1, <1>7
  <2>2. 1 \in DOMAIN gifts /\ gifts[1] = Gift(tag, c, w)
    BY <2>1
  <2> QED
    BY <2>2 DEF In
<1> HIDE DEF gifts
<1>8. Gives(In(gifts))
  BY <1>4, <1>5, InConcat DEF TypesOK, Gives
<1> QED
  BY <1>6, <1>7, <1>8

\* The answers to a fact of a mark eyre does not know.
StartGift(c) == Eyre!Start(c, TRUE)

LEMMA StartGifts ==
    ASSUME TypesOK, NEW w \in Eyre!Wids, NEW S \in SUBSET Eyre!Subscribers(w),
           NEW ducts \in Eyre!SetToSeqs(S),
           Eyre!Give([i \in DOMAIN ducts |-> Eyre!Start(ducts[i], TRUE)])
    PROVE  \E G : Gives(G) /\ \A e \in G : e.tag = "start"
<1> DEFINE gifts == [i \in DOMAIN ducts |-> StartGift(ducts[i])]
<1>1. ducts \in Seq(S) /\ S \subseteq Reqs
  BY SubscribersFinite, GiftsOfFact
<1>2. \A c \in S : StartGift(c) \in DP!Effects /\ StartGift(c).tag = "start"
  BY <1>1 DEF StartGift, Eyre!Start, DP!Effects, DP!Responses
<1>3. gifts \in Seq(DP!Effects)
  BY <1>1, <1>2
<1>4. \A e \in In(gifts) : e.tag = "start"
  BY <1>1, <1>2 DEF In
<1>5. eff' = eff \o gifts
  BY DEF Eyre!Give, StartGift
<1> HIDE DEF gifts
<1>6. Gives(In(gifts))
  BY <1>3, <1>5, InConcat DEF TypesOK, Gives
<1> QED
  BY <1>4, <1>6

\* A fact about id w reaches its subscribers (+handle-ws-response).
Facts(w, tag, G) ==
    /\ \A e \in G : \E c \in Eyre!Subscribers(w) : e = Gift(tag, c, w)
    /\ \A c : Eyre!Subscribers(w) = {c} => Gift(tag, c, w) \in G
    /\ conn' = [c \in Reqs |-> IF /\ c \in Eyre!Subscribers(w)
                                  /\ tag \in {"reject", "disconnect"}
                               THEN "none" ELSE conn[c]]
    /\ \/ sub' = sub
       \/ /\ tag = "disconnect"
          /\ sub' = [c \in Reqs |-> IF sub[c] = w THEN 0 ELSE sub[c]]
    /\ \/ /\ tag = "accept" /\ app[w] = "asked"
          /\ app' = [app EXCEPT ![w] = "accepted"]
       \/ /\ tag = "reject" /\ app[w] = "asked"
          /\ app' = [app EXCEPT ![w] = "ended"]
       \/ tag = "message" /\ app' = [app EXCEPT ![w] = app[w]]
       \/ /\ tag = "disconnect" /\ app[w] = "accepted"
          /\ app' = [app EXCEPT ![w] = "ended"]

BadMark(w, G) ==
    /\ \A e \in G : e.tag = "start"
    /\ conn' = [c \in Reqs |-> IF c \in Eyre!Subscribers(w) THEN "none"
                               ELSE conn[c]]
    /\ sub' = sub /\ app[w] = "asked"
    /\ app' = [app EXCEPT ![w] = "accepted"]

LEMMA AppShape ==
    ASSUME TypesOK, NEW w \in Eyre!Wids, Eyre!AppActions(w)
    PROVE  \E G : /\ Gives(G)
                  /\ \/ \E tag \in DP!WsResponses : Facts(w, tag, G)
                     \/ BadMark(w, G)
<1> DEFINE S == Eyre!Subscribers(w)
<1>1. ASSUME NEW tag \in DP!WsResponses, Eyre!handle_ws_response(S, w, tag)
      PROVE  \E G : /\ Gives(G)
                    /\ \A e \in G : \E c \in S : e = Gift(tag, c, w)
                    /\ \A c : S = {c} => Gift(tag, c, w) \in G
                    /\ conn' = [c \in Reqs |->
                                  IF c \in S /\ tag \in {"reject", "disconnect"}
                                  THEN "none" ELSE conn[c]]
  <2>1. PICK ducts \in Eyre!SetToSeqs(S) :
             Eyre!Give([i \in DOMAIN ducts |->
                          [tag |-> tag, req |-> ducts[i], wid |-> w]])
    BY <1>1 DEF Eyre!handle_ws_response
  <2>2. \E G : /\ Gives(G)
               /\ \A e \in G : \E c \in S : e = Gift(tag, c, w)
               /\ \A c : S = {c} => Gift(tag, c, w) \in G
    BY <2>1, FactGifts, SMTT(30)
  <2>3. conn' = [c \in Reqs |-> IF c \in S /\ tag \in {"reject", "disconnect"}
                                THEN "none" ELSE conn[c]]
    BY <1>1 DEF Eyre!handle_ws_response
  <2> QED
    BY <2>2, <2>3
<1>2. /\ "accept" \in DP!WsResponses /\ "reject" \in DP!WsResponses
      /\ "message" \in DP!WsResponses /\ "disconnect" \in DP!WsResponses
  BY DEF DP!WsResponses
<1> HIDE DEF S
<1>3. CASE Eyre!accept_handshake(w)
  <2>1. /\ Eyre!handle_ws_response(S, w, "accept") /\ app[w] = "asked"
        /\ app' = [app EXCEPT ![w] = "accepted"] /\ sub' = sub
    BY <1>3 DEF Eyre!accept_handshake, Eyre!AppSays, S
  <2> QED
    BY <1>1, <1>2, <2>1 DEF Facts, S
<1>4. CASE Eyre!refuse_handshake(w)
  <2>1. /\ Eyre!handle_ws_response(S, w, "reject") /\ app[w] = "asked"
        /\ app' = [app EXCEPT ![w] = "ended"] /\ sub' = sub
    BY <1>4 DEF Eyre!refuse_handshake, Eyre!AppSays, S
  <2> QED
    BY <1>1, <1>2, <2>1 DEF Facts, S
<1>5. CASE Eyre!give_ws_payload_server(w)
  <2>1. /\ Eyre!handle_ws_response(S, w, "message")
        /\ app' = [app EXCEPT ![w] = app[w]] /\ sub' = sub
    BY <1>5 DEF Eyre!give_ws_payload_server, Eyre!AppSays, S
  <2> QED
    BY <1>1, <1>2, <2>1 DEF Facts, S
<1>6. CASE Eyre!disconnect(w)
  <2>1. /\ Eyre!handle_ws_response(S, w, "disconnect") /\ app[w] = "accepted"
        /\ app' = [app EXCEPT ![w] = "ended"] /\ sub' = sub
    BY <1>6 DEF Eyre!disconnect, Eyre!AppSays, S
  <2> QED
    BY <1>1, <1>2, <2>1 DEF Facts, S
<1>7. CASE Eyre!kick(w)
  <2>1. /\ Eyre!handle_ws_response(S, w, "disconnect") /\ app[w] = "accepted"
        /\ app' = [app EXCEPT ![w] = "ended"]
        /\ sub' = [c \in Reqs |-> IF sub[c] = w THEN 0 ELSE sub[c]]
    BY <1>7 DEF Eyre!kick, S
  <2> QED
    BY <1>1, <1>2, <2>1 DEF Facts, S
<1>8. CASE Eyre!bad_mark(w)
  <2> DEFINE T == {c \in S : conn[c] # "none"}
  <2>1. PICK ducts \in Eyre!SetToSeqs(T) :
             Eyre!Give([i \in DOMAIN ducts |-> Eyre!Start(ducts[i], TRUE)])
    BY <1>8 DEF Eyre!bad_mark, S
  <2>2. T \in SUBSET S
    OBVIOUS
  <2>3. /\ conn' = [c \in Reqs |-> IF c \in T THEN "none" ELSE conn[c]]
        /\ sub' = sub /\ app[w] = "asked"
        /\ app' = [app EXCEPT ![w] = "accepted"]
    BY <1>8 DEF Eyre!bad_mark, S
  <2>4. conn' = [c \in Reqs |-> IF c \in S THEN "none" ELSE conn[c]]
    BY <2>3
  <2> HIDE DEF T
  <2>5. \E G : Gives(G) /\ \A e \in G : e.tag = "start"
    BY <2>1, <2>2, StartGifts DEF S
  <2> QED
    BY <2>3, <2>4, <2>5 DEF BadMark, S
<1> QED
  BY <1>3, <1>4, <1>5, <1>6, <1>7, <1>8 DEF Eyre!AppActions

LEMMA KernelBase ==
    ASSUME TypesOK, QueueInv, KnownIsCurrent, told' = told,
           restarts' = restarts, eff' \in Seq(DP!Effects),
           conn' \in [Reqs -> {"none", "new", "started"}],
           sub' \in [Reqs -> 0 .. (WidMod - 1)],
           app' \in [Eyre!Wids -> {"unknown", "asked", "accepted", "ended"}],
           NEW d, {c \in Reqs : sub'[c] # 0}
                    \subseteq {c \in Reqs : sub[c] # 0} \cup {d},
           \/ ova' = ova
           \/ ova # <<>> /\ ova' = Tail(ova),
           \/ ova' # ova /\ \A c \in Reqs : conn'[c] = "none"
           \/ /\ ova' = ova \/ Head(ova) # Born
              /\ \A c \in Reqs : conn'[c] # "none" =>
                   \/ conn[c] # "none"
                   \/ told[c] \cap {"request", "websocket-handshake"} # {}
    PROVE  TypesOK' /\ QueueInv' /\ KnownIsCurrent'
<1>1. IsFiniteSet({c \in Reqs : sub'[c] # 0})
  <2>1. IsFiniteSet({c \in Reqs : sub[c] # 0} \cup {d})
    BY FS_AddElement DEF TypesOK
  <2> QED
    BY <2>1, FS_Subset
<1>2. CASE ova' = ova
  <2>1. TypesOK' /\ QueueInv'
    BY <1>1, <1>2 DEF TypesOK, QueueInv, In
  <2>2. KnownIsCurrent'
    BY <1>2 DEF KnownIsCurrent
  <2> QED
    BY <2>1, <2>2
<1>3. CASE ova # <<>> /\ ova' = Tail(ova)
  <2>1. /\ QueueInv' /\ ova' \in Seq(DP!Ovum \cup {Born})
        /\ In(ova) = {Head(ova)} \cup In(ova')
        /\ Head(ova) \in DP!Ovum \cup {Born}
        /\ \A o \in In(ova') : o.tag # "born"
    BY <1>3, QueueTakes
  <2>2. TypesOK'
    BY <1>1, <2>1 DEF TypesOK
  <2>3. CASE \A c \in Reqs : conn'[c] = "none"
    BY <2>1, <2>2, <2>3 DEF KnownIsCurrent
  <2>4. CASE ova' # ova /\ ~\A c \in Reqs : conn'[c] = "none"
    <3>1. \A o \in In(ova) : o # Born /\ o.tag # "born"
      BY <2>1, <2>4, OvumOrBorn DEF Born
    <3>2. \A c \in Reqs : conn[c] # "none"
            => told[c] \cap {"request", "websocket-handshake"} # {}
      BY <3>1, KnownIn
    <3> QED
      BY <2>1, <2>2, <2>4, <3>2 DEF KnownIsCurrent
  <2> QED
    BY <1>2, <2>1, <2>2, <2>3, <2>4
<1> QED
  BY <1>2, <1>3

Forgets(c) == conn' = [conn EXCEPT ![c] = "none"]

\* The kernel takes o: what becomes of eyre, of Gall and of the agent.
Takes(o) ==
    \/ /\ o \in DP!Ovum /\ o.tag = "request"
       /\ conn' = [conn EXCEPT ![o.req] = "new"]
       /\ UNCHANGED <<sub, app>>
    \/ /\ o \in DP!Ovum /\ o.tag = "cancel-request"
       /\ Forgets(o.req)
       /\ UNCHANGED <<sub, app>>
    \/ /\ o \in DP!Ovum /\ o.tag \in SessionTags
       /\ UNCHANGED <<conn, sub, app>>
    \/ /\ o \in DP!Ovum /\ o.tag = "websocket-handshake"
       /\ conn' = [conn EXCEPT ![o.req] = "new"]
       /\ sub' = [sub EXCEPT ![o.req] = o.wid]
       /\ app' = [app EXCEPT ![o.wid] = "asked"]
    \/ /\ o \in DP!Ovum /\ o.tag = "websocket-handshake"
       /\ Forgets(o.req)
       /\ app' = [app EXCEPT ![o.wid] = "asked"]
       /\ UNCHANGED sub
    \/ /\ o \in DP!Ovum /\ o.tag = "disconnect"
       /\ conn[o.req] # "none" /\ Forgets(o.req)
       /\ sub' = [sub EXCEPT ![o.req] = IF sub[o.req] = o.wid THEN 0
                                        ELSE sub[o.req]]
       /\ app' = [app EXCEPT ![o.wid] = "ended"]
    \/ /\ o = Born
       /\ conn' = [c \in Reqs |-> "none"]
       /\ UNCHANGED <<sub, app>>

LEMMA ComputeShape ==
    ASSUME TypesOK, Compute
    PROVE  /\ Quiet /\ ova # <<>> /\ ova' = Tail(ova) /\ restarts' = restarts
           /\ Head(ova) \in DP!Ovum \cup {Born}
           /\ Takes(Head(ova))
           /\ \E G : Gives(G) /\ \A e \in G : e.tag \in {"start", "set-config"}
<1> DEFINE o == Head(ova)
<1>1. ova # <<>> /\ ova' = Tail(ova) /\ Quiet /\ restarts' = restarts
  BY DEF Compute, Quiet
<1>2. o \in DP!Ovum \cup {Born}
  BY <1>1, InTail DEF TypesOK
<1>3. \/ o.tag = "request" /\ Eyre!request(o.req)
      \/ o.tag = "cancel-request" /\ Eyre!cancel_request(o.req)
      \/ o.tag = "websocket-handshake" /\ Eyre!ws_handshake(o.req, o.wid)
      \/ /\ o.tag \in {"message", "disconnect"}
         /\ Eyre!ws_event(o.req, o.wid, o.tag)
      \/ o.tag = "born" /\ Eyre!born
  BY DEF Compute
<1> HIDE DEF o
<1>4. o.tag = "born" <=> o = Born
  BY <1>2, OvumOrBorn
<1>5. eff' = eff => Gives({})
  BY DEF Gives, TypesOK, In
<1>6. CASE o.tag = "born" /\ Eyre!born
  <2>1. [tag |-> "set-config"] \in DP!Effects
    BY DEF DP!Effects
  <2>2. Gives({[tag |-> "set-config"]})
    BY <1>6, <2>1, GivesOne DEF Eyre!born
  <2>3. Takes(o)
    BY <1>4, <1>6 DEF Takes, Eyre!born
  <2> QED
    BY <1>1, <1>2, <2>2, <2>3 DEF o
<1>7. CASE eff' = eff /\ Takes(o)
  BY <1>1, <1>2, <1>5, <1>7 DEF o
<1>8. CASE /\ o.tag = "websocket-handshake"
           /\ Forgets(o.req)
           /\ app' = [app EXCEPT ![o.wid] = "asked"]
           /\ Eyre!Give(<<Eyre!Start(o.req, TRUE)>>)
           /\ UNCHANGED sub
  <2> DEFINE e == Eyre!Start(o.req, TRUE)
  <2>1. o \in DP!Ovum /\ o.req \in Reqs
    BY <1>2, <1>4, <1>8, OvumFields
  <2>2. e \in DP!Effects /\ e.tag = "start"
    BY <2>1 DEF Eyre!Start, DP!Effects, DP!Responses
  <2>3. Gives({e})
    <3>1. Eyre!Give(<<e>>)
      BY <1>8
    <3> HIDE DEF e
    <3> QED
      BY <2>2, <3>1, GivesOne
  <2>4. Takes(o)
    BY <1>8, <2>1 DEF Takes
  <2> QED
    BY <1>1, <1>2, <2>2, <2>3, <2>4 DEF o
<1>9. CASE o.tag \in {"request", "cancel-request"}
  <2>1. o \in DP!Ovum
    BY <1>2, <1>4, <1>9
  <2> QED
    BY <1>3, <1>7, <1>9, <2>1
    DEF Takes, Forgets, Eyre!request, Eyre!cancel_request
<1>10. CASE o.tag \in {"message", "disconnect"}
  <2>1. o \in DP!Ovum /\ o.tag \in SessionTags
    BY <1>2, <1>4, <1>10 DEF SessionTags
  <2> QED
    BY <1>3, <1>7, <1>10, <2>1 DEF Takes, Forgets, Eyre!ws_event, Eyre!eyreVars
<1>11. CASE o.tag = "websocket-handshake"
  <2>1. o \in DP!Ovum /\ o.tag \in SessionTags
    BY <1>2, <1>4, <1>11 DEF SessionTags
  <2>2. \/ UNCHANGED <<conn, sub, app, eff>>
        \/ /\ conn' = [conn EXCEPT ![o.req] = "new"]
           /\ sub' = [sub EXCEPT ![o.req] = o.wid]
           /\ app' = [app EXCEPT ![o.wid] = "asked"]
           /\ eff' = eff
        \/ /\ Forgets(o.req)
           /\ app' = [app EXCEPT ![o.wid] = "asked"]
           /\ Eyre!Give(<<Eyre!Start(o.req, TRUE)>>)
           /\ UNCHANGED sub
    BY <1>3, <1>11 DEF Forgets, Eyre!ws_handshake, Eyre!eyreVars
  <2>3. CASE UNCHANGED <<conn, sub, app, eff>>
    BY <1>7, <2>1, <2>3 DEF Takes
  <2>4. CASE /\ conn' = [conn EXCEPT ![o.req] = "new"]
             /\ sub' = [sub EXCEPT ![o.req] = o.wid]
             /\ app' = [app EXCEPT ![o.wid] = "asked"]
             /\ eff' = eff
    BY <1>7, <1>11, <2>1, <2>4 DEF Takes
  <2> QED
    BY <1>8, <1>11, <2>2, <2>3, <2>4
<1> QED
  BY <1>3, <1>6, <1>9, <1>10, <1>11

LEMMA ComputeBase ==
    ASSUME DP!IInv, TypesOK, QueueInv, KnownIsCurrent, Compute
    PROVE  DP!IInv' /\ TypesOK' /\ QueueInv' /\ KnownIsCurrent'
<1> DEFINE o == Head(ova)
<1>1. /\ Quiet /\ ova # <<>> /\ ova' = Tail(ova) /\ restarts' = restarts
      /\ o \in DP!Ovum \cup {Born}
      /\ (\E G : Gives(G)) /\ Takes(o)
  BY ComputeShape
<1>2. o \in In(ova)
  BY <1>1, QueueTakes DEF Quiet
<1>3. o # Born => /\ o \in DP!Ovum /\ o.req \in Reqs /\ o.tag # "born"
                  /\ o.tag \in told[o.req] /\ o.wid \in 0 .. (WidMod - 1)
  BY <1>1, <1>2, OvumFields DEF QueueInv
<1> HIDE DEF o
<1>4. PICK G : Gives(G) /\ Takes(o)
  BY <1>1
<1>5. conn' \in [Reqs -> {"none", "new", "started"}]
  BY <1>3, <1>4 DEF Takes, Forgets, TypesOK
<1>6. app' \in [Eyre!Wids -> {"unknown", "asked", "accepted", "ended"}]
  BY <1>4 DEF Takes, TypesOK
<1>7. /\ sub' \in [Reqs -> 0 .. (WidMod - 1)]
      /\ \E d : {c \in Reqs : sub'[c] # 0}
                  \subseteq {c \in Reqs : sub[c] # 0} \cup {d}
  <2>1. \/ sub' = sub
        \/ \E c \in Reqs, w \in 0 .. (WidMod - 1) :
              sub' = [sub EXCEPT ![c] = w]
    <3>1. 0 \in 0 .. (WidMod - 1)
      BY WidModAssumption
    <3>2. o # Born => sub[o.req] \in 0 .. (WidMod - 1)
      BY <1>3 DEF TypesOK
    <3>3. CASE o \in DP!Ovum /\ o.tag = "disconnect" /\ sub' # sub
      <4>1. sub' = [sub EXCEPT ![o.req] = IF sub[o.req] = o.wid THEN 0
                                          ELSE sub[o.req]]
        BY <1>4, <3>3 DEF Takes, Born
      <4>2. (IF sub[o.req] = o.wid THEN 0 ELSE sub[o.req]) \in 0 .. (WidMod - 1)
        BY <1>3, <3>1, <3>2, <3>3, OvumFields
      <4> QED
        BY <1>3, <3>3, <4>1, <4>2, OvumFields
    <3>4. CASE sub' # sub /\ ~(o \in DP!Ovum /\ o.tag = "disconnect")
      <4>0. o.tag = "websocket-handshake"
            /\ sub' = [sub EXCEPT ![o.req] = o.wid]
        BY <1>4, <3>4, Zenon DEF Takes
      <4>1. o # Born /\ sub' = [sub EXCEPT ![o.req] = o.wid]
        BY <4>0 DEF Born
      <4> QED
        BY <1>3, <4>1
    <3> QED
      BY <3>3, <3>4
  <2>2. ASSUME NEW c \in Reqs, NEW w \in 0 .. (WidMod - 1),
               sub' = [sub EXCEPT ![c] = w]
        PROVE  /\ sub' \in [Reqs -> 0 .. (WidMod - 1)]
               /\ {d \in Reqs : sub'[d] # 0}
                     \subseteq {d \in Reqs : sub[d] # 0} \cup {c}
    BY <2>2 DEF TypesOK
  <2> QED
    BY <2>1, <2>2 DEF TypesOK
<1>8. \/ ova' # ova /\ \A c \in Reqs : conn'[c] = "none"
      \/ /\ o # Born
         /\ \A c \in Reqs : conn'[c] # "none" =>
              \/ conn[c] # "none"
              \/ told[c] \cap {"request", "websocket-handshake"} # {}
  <2>1. CASE o = Born
    <3>1. ova' # ova
      <4>1. \A p \in In(ova') : p.tag # "born"
        BY <1>1, QueueTakes DEF Quiet
      <4> QED
        BY <1>2, <2>1, <4>1 DEF Born
    <3> QED
      BY <1>4, <2>1, <3>1, OvumFields DEF Takes
  <2>2. CASE o # Born
    <3>1. \/ conn' = conn
          \/ Forgets(o.req)
          \/ /\ o.tag \in {"request", "websocket-handshake"}
             /\ conn' = [conn EXCEPT ![o.req] = "new"]
      BY <1>4, <2>2 DEF Takes
    <3>2. \A c \in Reqs : conn'[c] # "none" =>
            \/ conn[c] # "none"
            \/ /\ o.tag \in {"request", "websocket-handshake"} /\ c = o.req
      BY <3>1 DEF TypesOK, Forgets
    <3> QED
      BY <1>3, <2>2, <3>2
  <2> QED
    BY <2>1, <2>2
<1>9. eff' \in Seq(DP!Effects)
  BY <1>4 DEF Gives
<1>10. PICK d : {c \in Reqs : sub'[c] # 0}
                  \subseteq {c \in Reqs : sub[c] # 0} \cup {d}
  BY <1>7
<1>11. TypesOK' /\ QueueInv' /\ KnownIsCurrent'
  BY <1>1, <1>5, <1>6, <1>7, <1>8, <1>9, <1>10, KernelBase DEF Quiet, o
<1> QED
  BY <1>1, <1>11, QuietKeeps

\* What the agent does of its own accord, and a changed configuration.
Acts(G) ==
    \/ \E w \in Eyre!Wids : \E tag \in DP!WsResponses : Facts(w, tag, G)
    \/ \E w \in Eyre!Wids : BadMark(w, G)
    \/ /\ \A e \in G : e.tag \notin DP!WsResponses
       /\ \E c \in PlainReqs : \E a \in {"none", "started"} :
            conn[c] # "none" /\ conn' = [conn EXCEPT ![c] = a]
       /\ UNCHANGED <<sub, app>>
    \/ /\ \A e \in G : e.tag \notin DP!WsResponses
       /\ UNCHANGED <<conn, sub, app>>

LEMMA ActsShape ==
    ASSUME TypesOK, Agent \/ Configure
    PROVE  /\ Quiet /\ ova' = ova /\ restarts' = restarts
           /\ \E G : Gives(G) /\ Acts(G)
<1>1. Quiet /\ ova' = ova /\ restarts' = restarts
  BY DEF Agent, Configure, Quiet
<1>2. CASE \E w \in Eyre!Wids : Eyre!AppActions(w)
  BY <1>1, <1>2, AppShape DEF Acts
<1>3. ASSUME NEW c \in PlainReqs, Eyre!AppResponds(c)
      PROVE  \E G : Gives(G) /\ Acts(G)
  <2>0. PICK complete \in BOOLEAN, data \in BOOLEAN :
           \E e \in {Eyre!Start(c, complete), Eyre!Continue(c, data, complete),
                     Eyre!Cancel(c)} : Eyre!handle_response(c, e)
    BY <1>3 DEF Eyre!AppResponds
  <2>1. PICK e \in {Eyre!Start(c, complete), Eyre!Continue(c, data, complete),
                    Eyre!Cancel(c)} : Eyre!handle_response(c, e)
    BY <2>0
  <2> DEFINE sane == \/ e.tag = "start" /\ conn[c] = "new"
                     \/ e.tag = "continue" /\ conn[c] = "started"
             g == IF sane THEN e ELSE Eyre!Cancel(c)
  <2>2. c \in Reqs
    BY DEF Reqs
  <2>3. g \in {Eyre!Start(c, complete), Eyre!Continue(c, data, complete),
               Eyre!Cancel(c), [tag |-> "set-config"]}
    BY <2>1
  <2>4. /\ Eyre!Give(<<g>>) /\ conn[c] # "none" /\ UNCHANGED <<sub, app>>
        /\ \E a \in {"none", "started"} : conn' = [conn EXCEPT ![c] = a]
    BY <2>1 DEF Eyre!handle_response
  <2> HIDE DEF g
  <2>5. g \in DP!Effects
        /\ g.tag \notin {"accept", "reject", "disconnect", "message"}
    BY <2>2, <2>3, PlainGifts
  <2>6. Gives({g})
    BY <2>4, <2>5, GivesOne
  <2>7. Acts({g})
    BY <2>4, <2>5 DEF Acts, DP!WsResponses
  <2> QED
    BY <2>6, <2>7
<1>4. CASE Configure
  <2>1. [tag |-> "set-config"] \in DP!Effects
    BY DEF DP!Effects
  <2>2. Gives({[tag |-> "set-config"]}) /\ UNCHANGED <<conn, sub, app>>
    BY <1>4, <2>1, GivesOne DEF Configure, Eyre!rule
  <2>3. Acts({[tag |-> "set-config"]})
    BY <2>2 DEF Acts, DP!WsResponses
  <2> QED
    BY <1>1, <2>2, <2>3
<1> QED
  BY <1>1, <1>2, <1>3, <1>4 DEF Agent

LEMMA ActsBase ==
    ASSUME DP!IInv, TypesOK, QueueInv, KnownIsCurrent, Agent \/ Configure
    PROVE  DP!IInv' /\ TypesOK' /\ QueueInv' /\ KnownIsCurrent'
<1>1. /\ Quiet /\ ova' = ova /\ restarts' = restarts
      /\ \E G : Gives(G) /\ Acts(G)
  BY ActsShape
<1>2. PICK G : Gives(G) /\ Acts(G)
  BY <1>1
<1>3. /\ conn' \in [Reqs -> {"none", "new", "started"}]
      /\ \A c \in Reqs : conn'[c] # "none" => conn[c] # "none"
  BY <1>2 DEF Acts, Facts, BadMark, TypesOK
<1>4. app' \in [Eyre!Wids -> {"unknown", "asked", "accepted", "ended"}]
  BY <1>2 DEF Acts, Facts, BadMark, TypesOK
<1>5. /\ sub' \in [Reqs -> 0 .. (WidMod - 1)]
      /\ \A c \in Reqs : sub'[c] # 0 => sub[c] # 0
  BY <1>2, WidModAssumption DEF Acts, Facts, BadMark, TypesOK
<1>6. {c \in Reqs : sub'[c] # 0} \subseteq {c \in Reqs : sub[c] # 0} \cup {0}
  BY <1>5
<1>7. TypesOK' /\ QueueInv' /\ KnownIsCurrent'
  BY <1>1, <1>2, <1>3, <1>4, <1>5, <1>6, KernelBase DEF Quiet, Gives
<1> QED
  BY <1>1, <1>7, QuietKeeps

-----------------------------------------------------------------------------
(* Routed, in the first process.                                             *)

LEMMA MovesRouted ==
    ASSUME Routed, Moves, In(eff') \subseteq In(eff),
           TypesOK, \/ ova' = ova
                    \/ \E o \in DP!Ovum : DP!Reported(o) /\ Appends(o)
    PROVE  Routed'
<1>1. \A c \in Reqs : /\ Started(web'[c]) <=> Started(web[c])
                      /\ web'[c].wid = web[c].wid /\ sub'[c] = sub[c]
  BY DEF Moves
<1>2. \A o \in In(ova) : o.tag \in SessionTags => o.req \in Reqs
  BY OvumFields DEF TypesOK, In, Born, SessionTags
<1>3. \A e \in In(eff) : e.tag \in DP!WsResponses => e.req \in Reqs
  BY DEF TypesOK, In, DP!Effects, DP!WsResponses, DP!Responses
<1>4. \A o \in In(ova') : o.tag \in SessionTags
                            => Owns(o.req, o.wid)' /\ o.req \in Reqs
  <2>1. CASE ova' = ova
    BY <1>1, <1>2, <2>1 DEF Routed, Owns
  <2>2. ASSUME NEW o \in DP!Ovum, DP!Reported(o), Appends(o)
        PROVE  \A p \in In(ova') : p.tag \in SessionTags
                                     => Owns(p.req, p.wid)' /\ p.req \in Reqs
    <3>1. o.tag \in SessionTags => Owns(o.req, o.wid)' /\ o.req \in Reqs
      BY <1>1, <2>2, OvumFields DEF DP!Reported, Owns, Started, SessionTags
    <3>2. \A p \in In(ova) : p.tag \in SessionTags
                               => Owns(p.req, p.wid)' /\ p.req \in Reqs
      BY <1>1, <1>2 DEF Routed, Owns
    <3> QED
      BY <2>2, <3>1, <3>2 DEF Appends
  <2> QED
    BY <2>1, <2>2
<1>5. \A e \in In(eff') : e.tag \in DP!WsResponses => Owns(e.req, e.wid)'
  BY <1>1, <1>3 DEF Routed, Owns
<1>6. \A c \in Reqs : /\ Started(web'[c]) => c \in WsReqs
                      /\ sub'[c] # 0 => Owns(c, sub[c])'
  BY <1>1 DEF Routed, Owns
<1> QED
  BY <1>4, <1>5, <1>6 DEF Routed

\* A request or a handshake begins: of the session, if it is one, eyre, Gall
\* and the queues know nothing.
LEMMA FreeUnknown ==
    ASSUME DP!IInv, TypesOK, QueueInv, Routed, NEW c \in Reqs,
           req[c].st = "free"
    PROVE  /\ ~Started(web[c]) /\ sub[c] = 0
           /\ \A o \in In(ova) : o.tag \in SessionTags => o.req # c
           /\ \A e \in In(eff) : e.tag \in DP!WsResponses => e.req # c
<1>1. ~Started(web[c])
  BY DEF DP!IInv, DP!PairInv, DP!RequestOK, Started
<1> QED
  BY <1>1 DEF Routed, Owns

LEMMA ArriveRouted ==
    ASSUME DP!IInv, TypesOK, QueueInv, Routed, Running, NEW c \in Reqs,
           Arrive(c),
           \/ ova' = ova
           \/ \E o \in DP!Ovum : o \in out' /\ Appends(o)
    PROVE  Routed'
<1>1. /\ req[c].st = "free" /\ \A d \in Reqs \ {c} : web'[d] = web[d]
      /\ \/ c \in PlainReqs /\ DP!http_req_dispatch(c)
         \/ c \in WsReqs /\ DP!http_ws_handshake(c)
         \/ c \in WsReqs /\ DP!http_bad_handshake(c)
      /\ UNCHANGED <<sub, eff>>
  BY ArriveKeeps
<1>2. /\ ~Started(web[c]) /\ sub[c] = 0
      /\ \A o \in In(ova) : o.tag \in SessionTags => o.req # c
      /\ \A e \in In(eff) : e.tag \in DP!WsResponses => e.req # c
  BY <1>1, FreeUnknown
<1>3. Started(web'[c]) => c \in WsReqs
  BY <1>1, <1>2 DEF DP!http_req_dispatch
<1>4. \A o \in In(ova) : o.tag \in SessionTags => o.req \in Reqs
  BY OvumFields DEF TypesOK, In, Born, SessionTags
<1>5. \A e \in In(eff) : e.tag \in DP!WsResponses => e.req \in Reqs
  BY DEF TypesOK, In, DP!Effects, DP!WsResponses, DP!Responses
<1>6. ASSUME NEW o \in out', o.tag \in SessionTags
      PROVE  Owns(o.req, o.wid)'
  <2>1. DP!http_ws_handshake(c)
    BY <1>1, <1>6 DEF DP!http_req_dispatch, DP!http_bad_handshake, DP!Plan,
                      DP!PlanNothing, SessionTags
  <2> DEFINE wid == IF wid_l = 0 THEN 1 ELSE wid_l
  <2>2. /\ o = [tag |-> "websocket-handshake", req |-> c, wid |-> wid]
        /\ web' = [web EXCEPT ![c] = [sat |-> "pending", wid |-> wid,
                                      req |-> TRUE, woc |-> "none",
                                      birth |-> births]]
    BY <1>6, <2>1 DEF DP!http_ws_handshake, DP!Plan
  <2> HIDE DEF wid
  <2>3. o.req = c /\ o.wid = wid /\ web'[c].sat = "pending" /\ web'[c].wid = wid
    BY <2>2 DEF DP!IInv, DP!TypeOK
  <2> QED
    BY <2>3 DEF Owns, Started
<1>7. \A o \in In(ova') : o.tag \in SessionTags => Owns(o.req, o.wid)'
  <2>1. \A o \in In(ova) : o.tag \in SessionTags => Owns(o.req, o.wid)'
    BY <1>1, <1>2, <1>4 DEF Routed, Owns
  <2>2. ASSUME NEW o \in out', Appends(o)
        PROVE  \A p \in In(ova') : p.tag \in SessionTags => Owns(p.req, p.wid)'
    BY <1>6, <2>1, <2>2 DEF Appends
  <2> QED
    BY <2>1, <2>2
<1>8. \A e \in In(eff') : e.tag \in DP!WsResponses => Owns(e.req, e.wid)'
  BY <1>1, <1>2, <1>5 DEF Routed, Owns
<1>9. \A d \in Reqs : /\ Started(web'[d]) => d \in WsReqs
                      /\ sub'[d] # 0 => Owns(d, sub[d])'
  BY <1>1, <1>2, <1>3 DEF Routed, Owns
<1> QED
  BY <1>7, <1>8, <1>9 DEF Routed

LEMMA ComputeRouted ==
    ASSUME TypesOK, QueueInv, Routed, Compute
    PROVE  Routed'
<1> DEFINE o == Head(ova)
<1>1. /\ Quiet /\ ova # <<>> /\ ova' = Tail(ova)
      /\ o \in DP!Ovum \cup {Born} /\ Takes(o)
      /\ \E G : Gives(G) /\ \A e \in G : e.tag \in {"start", "set-config"}
  BY ComputeShape
<1>2. o \in In(ova) /\ In(ova') \subseteq In(ova)
  BY <1>1, QueueTakes DEF Quiet
<1> HIDE DEF o
<1>3. \A c \in Reqs : sub'[c] # 0 => \/ sub'[c] = sub[c]
                                     \/ /\ o.tag = "websocket-handshake"
                                        /\ c = o.req /\ sub'[c] = o.wid
  <2>1. \/ sub' = sub
        \/ /\ o.tag = "websocket-handshake"
           /\ sub' = [sub EXCEPT ![o.req] = o.wid]
        \/ sub' = [sub EXCEPT ![o.req] = IF sub[o.req] = o.wid THEN 0
                                         ELSE sub[o.req]]
    BY <1>1, Zenon DEF Takes
  <2> QED
    BY <2>1 DEF TypesOK
<1>4. \A c \in Reqs : sub'[c] # 0 => Owns(c, sub'[c])
  BY <1>2, <1>3 DEF Routed, SessionTags
<1>5. \A e \in In(eff') : e.tag \in DP!WsResponses => e \in In(eff)
  BY <1>1 DEF Gives, DP!WsResponses
<1> QED
  BY <1>1, <1>2, <1>4, <1>5 DEF Routed, Quiet, Owns

LEMMA ActsRouted ==
    ASSUME TypesOK, Routed, Agent \/ Configure
    PROVE  Routed'
<1>1. Quiet /\ ova' = ova
  BY ActsShape
<1>2. PICK G : Gives(G) /\ Acts(G)
  BY ActsShape
<1>3. \A c \in Reqs : sub'[c] # 0 => sub'[c] = sub[c]
  BY <1>2 DEF Acts, Facts, BadMark, TypesOK
<1>4. ASSUME NEW e \in G, e.tag \in DP!WsResponses PROVE Owns(e.req, e.wid)
  <2>1. PICK w \in Eyre!Wids, tag \in DP!WsResponses : Facts(w, tag, G)
    BY <1>2, <1>4 DEF Acts, BadMark, DP!WsResponses
  <2>2. PICK c \in Eyre!Subscribers(w) : e = Gift(tag, c, w)
    BY <1>4, <2>1 DEF Facts
  <2>3. c \in Reqs /\ sub[c] = w /\ w # 0
    BY <2>2, SubscribersFinite
  <2> QED
    BY <2>2, <2>3 DEF Routed, Gift
<1>5. \A e \in In(eff') : e.tag \in DP!WsResponses => Owns(e.req, e.wid)
  BY <1>2, <1>4 DEF Gives, Routed
<1> QED
  BY <1>1, <1>3, <1>5 DEF Routed, Quiet, Owns, In

-----------------------------------------------------------------------------
(* Unborn and SessionOK, in the first process and while its ids last.        *)

LEMMA OwnId ==
    ASSUME DP!IInv, births < WidMod, NEW c \in Reqs, NEW d \in Reqs,
           Started(web[c]), Started(web[d]), web[c].wid = web[d].wid
    PROVE  c = d
<1>1. web[c].birth \in Nat /\ web[d].birth \in Nat
  BY DEF DP!IInv, DP!TypeOK, DP!HWs
<1>2. web[c].wid = web[c].birth + 1 /\ web[d].wid = web[d].birth + 1
  BY DEF DP!IInv, DP!CounterInv, Started
<1>3. web[c].birth + 1 = web[d].birth + 1
  BY <1>2, Zenon
<1>4. web[c].birth = web[d].birth
  BY <1>1, <1>3
<1> QED
  BY <1>4 DEF DP!IInv, DP!CounterInv, Started

\* The session that _http_ws_find() finds is that of the duct the effect was
\* given on.
LEMMA FoundIsOwner ==
    ASSUME DP!IInv, Routed, births < WidMod, NEW e \in In(eff),
           e \in DP!Effects, e.tag \in DP!WsResponses,
           NEW c \in Reqs, DP!Found(c, e.wid)
    PROVE  e.req = c
<1>1. e.req \in Reqs
  BY DEF DP!Effects, DP!WsResponses, DP!Responses
<1>2. Owns(e.req, e.wid)
  BY DEF Routed
<1>3. Started(web[c]) /\ web[c].wid = e.wid
  BY DEF DP!Found, DP!Live, Started
<1> QED
  BY <1>1, <1>2, <1>3, OwnId DEF Owns

\* What a step of the driver leaves of the effects: an accept was on its way
\* to a session that opens, and the end of one that stays still is.
Released ==
    /\ In(eff') \subseteq In(eff)
    /\ \A c \in Reqs : web'[c].sat = "open" =>
         \/ web[c].sat = "open"
         \/ /\ Given("accept", c) /\ web[c].sat = "pending"
            /\ fault' = "none" => h2o[c] = "idle"
    /\ \A c \in Reqs : \A tag \in {"reject", "disconnect"} :
         Given(tag, c) /\ web'[c].sat \in {"pending", "open"}
           => Given(tag, c)'

LEMMA ReleaseReleased ==
    ASSUME DP!IInv, TypesOK, Routed, births < WidMod, Running, Release,
           \A c \in Reqs : Answered(c)
    PROVE  Released
<1> DEFINE e == Head(eff)
<1>1. /\ Moves /\ eff # <<>> /\ eff' = Tail(eff)
      /\ e \in DP!Effects /\ DP!http_ef_http_server(e)
      /\ \A d \in Reqs : web'[d].sat = "open" =>
           \/ web[d].sat = "open"
           \/ /\ e.tag = "accept" /\ DP!Found(d, e.wid)
              /\ web[d].sat = "pending"
              /\ fault' = "none" => h2o[d] = "idle"
  BY ReleaseMoves
<1>2. In(eff) = {e} \cup In(eff')
  BY <1>1, InTail DEF TypesOK
<1> HIDE DEF e
<1>3. e \in In(eff)
  BY <1>2
<1>4. ASSUME NEW c \in Reqs, web'[c].sat = "open", web[c].sat # "open"
      PROVE  /\ Given("accept", c) /\ web[c].sat = "pending"
             /\ fault' = "none" => h2o[c] = "idle"
  <2>1. /\ e.tag = "accept" /\ DP!Found(c, e.wid) /\ web[c].sat = "pending"
        /\ fault' = "none" => h2o[c] = "idle"
    BY <1>1, <1>4
  <2>2. e.req = c
    BY <1>1, <1>3, <2>1, FoundIsOwner DEF DP!WsResponses
  <2> QED
    BY <1>3, <2>1, <2>2 DEF Given
<1>5. ASSUME NEW c \in Reqs, NEW tag \in {"reject", "disconnect"},
             Given(tag, c), web'[c].sat \in {"pending", "open"}
      PROVE  Given(tag, c)'
  <2>1. CASE e.tag = tag /\ e.req = c
    <3>1. e.tag \in {"reject", "disconnect"} /\ e.tag \in DP!WsResponses
      BY <2>1 DEF DP!WsResponses
    <3>2. Started(web[c]) /\ web[c].wid = e.wid
      BY <1>3, <2>1, <3>1 DEF Routed, Owns
    <3>3. web[c].sat \in {"pending", "open"}
      BY <1>1, <1>5 DEF Moves
    <3>4. DP!Found(c, e.wid)
      <4>1. \A d \in Reqs : web[d].sat \in DP!Live /\ web[d].wid = e.wid
                              => d = c
        BY <3>2, OwnId DEF Started, DP!Live
      <4>2. web[c].birth \in Nat
        BY DEF DP!IInv, DP!TypeOK, DP!HWs
      <4> QED
        BY <3>2, <3>3, <4>1, <4>2 DEF DP!Found, DP!Live
    <3>5. \A d \in Reqs : DP!Found(d, e.wid) => d = c
      BY <1>1, <1>3, <2>1, <3>1, FoundIsOwner
    <3>6. web[c].sat \in DP!Heeds(e.tag)
      <4>1. e.tag = "reject" => web[c].sat # "open"
        BY <1>3, <2>1 DEF Answered, Given
      <4>2. DP!Heeds("reject") = {"pending"}
            /\ DP!Heeds("disconnect") = {"pending", "open"}
        BY DEF DP!Heeds
      <4> QED
        BY <3>1, <3>3, <4>1, <4>2
    <3>7. web'[c].sat \notin {"pending", "open"}
      BY <1>1, <3>1, <3>4, <3>5, <3>6, DP!EndHeeded, WidModAssumption
      DEF DP!IInv
    <3> QED
      BY <1>5, <3>7
  <2>2. CASE ~(e.tag = tag /\ e.req = c)
    BY <1>2, <1>5, <2>2 DEF Given
  <2> QED
    BY <2>1, <2>2
<1>6. In(eff') \subseteq In(eff)
  BY <1>2
<1> QED
  BY <1>4, <1>5, <1>6 DEF Released

LEMMA KeptReleased ==
    ASSUME eff' = eff,
           \A d \in Reqs : web'[d].sat = "open" => web[d].sat = "open"
    PROVE  Released
BY DEF Released, Given

LEMMA MovesSessions ==
    ASSUME DP!IInv, TypesOK, Moves, Released, Running,
           \/ ova' = ova
           \/ \E o \in DP!Ovum : DP!Reported(o) /\ Appends(o),
           Unborn, \A c \in Reqs : SessionOK(c)
    PROVE  Unborn' /\ \A c \in Reqs : SessionOK(c)'
<1>1. \A c \in Reqs : /\ Started(web'[c]) <=> Started(web[c])
                      /\ web'[c].wid = web[c].wid
                      /\ web'[c].sat = "pending" => web[c].sat = "pending"
                      /\ h2o'[c] = "idle" => h2o[c] = "idle"
                      /\ told[c] \subseteq told'[c]
  BY DEF Moves, DP!Announced
<1>2. conn' = conn /\ sub' = sub /\ app' = app
  BY DEF Moves
<1>3. \A tag, c : Given(tag, c)' => Given(tag, c)
  BY DEF Given, Released
<1>4. \A c \in Reqs : Queued("message", c)'
                        => Queued("message", c) \/ web[c].sat = "open"
  BY DEF Queued, DP!Reported, Appends
<1>5. \A c \in Reqs : Queued("websocket-handshake", c)'
                        => Queued("websocket-handshake", c)
  BY DEF Queued, DP!Reported, Appends
<1>6. Born \in In(ova') => Born \in In(ova)
  BY OvumFields DEF Appends
<1>7. \A c \in Reqs : Accepted(c)' => Accepted(c)
  BY <1>3, <1>4 DEF Accepted, Released
<1>8. Unborn'
  BY <1>2, <1>6, <1>7 DEF Unborn
<1>9. ASSUME NEW c \in Reqs PROVE SessionOK(c)'
  <2>0. Unasked(c) /\ Remembered(c) /\ Answered(c) /\ Known(c)
    BY DEF SessionOK
  <2>1. Unasked(c)'
    <3>1. \A i : HandshakeAt(i, c)' => HandshakeAt(i, c)
      <4>1. CASE ova' = ova
        BY <4>1 DEF HandshakeAt
      <4>2. ASSUME NEW o, DP!Reported(o), Appends(o), NEW i, HandshakeAt(i, c)'
            PROVE  HandshakeAt(i, c)
        BY <4>2 DEF HandshakeAt, Appends, DP!Reported
      <4> QED
        BY <4>1, <4>2
    <3> QED
      BY <1>2, <1>3, <1>5, <1>7, <2>0, <3>1 DEF Unasked
  <2>2. Remembered(c)'
    BY <1>1, <1>2, <2>0 DEF Remembered
  <2>3. Answered(c)'
    <3>1. Given("reject", c) => web'[c].sat # "open"
      BY <2>0 DEF Answered, Released
    <3> QED
      BY <1>1, <1>2, <1>3, <1>7, <2>0, <3>1 DEF Answered
  <2>4. Known(c)'
    <3> SUFFICES ASSUME fault' = "none",
                        \/ web'[c].sat = "open"
                        \/ /\ web'[c].sat = "pending" /\ h2o'[c] = "idle"
                           /\ Given("accept", c)'
                 PROVE  \/ conn'[c] # "none" \/ Given("reject", c)'
                        \/ Given("disconnect", c)'
      BY DEF Known
    <3>1. \/ web[c].sat = "open"
          \/ /\ web[c].sat = "pending" /\ h2o[c] = "idle"
             /\ Given("accept", c)
      BY <1>1, <1>3 DEF Released
    <3>2. \/ conn[c] # "none" \/ Given("reject", c) \/ Given("disconnect", c)
      BY <2>0, <3>1 DEF Known, Running
    <3> QED
      BY <1>2, <3>2 DEF Released
  <2> QED
    BY <2>1, <2>2, <2>3, <2>4 DEF SessionOK
<1> QED
  BY <1>8, <1>9

LEMMA OwnWid ==
    ASSUME DP!IInv, births < WidMod, NEW c \in Reqs, Started(web[c])
    PROVE  web[c].wid \in Eyre!Wids
<1>1. web[c].birth \in Nat /\ births \in Nat
  BY DEF DP!IInv, DP!TypeOK, DP!HWs
<1>2. web[c].birth < births
  BY DEF DP!IInv, DP!CounterInv, Started
<1>3. web[c].wid = web[c].birth + 1
  BY DEF DP!IInv, DP!CounterInv, Started
<1> DEFINE b == web[c].birth
<1>4. b + 1 \in Eyre!Wids
  <2> HIDE DEF b
  <2>1. b \in Nat /\ b < births
    BY <1>1, <1>2 DEF b
  <2> QED
    BY <1>1, <2>1, WidModAssumption DEF Eyre!Wids
<1> QED
  BY <1>3, <1>4, Zenon

LEMMA ArriveSessions ==
    ASSUME DP!IInv, TypesOK, QueueInv, Routed, Running,
           NEW c \in Reqs, Arrive(c),
           \/ ova' = ova
           \/ \E o \in DP!Ovum : o \in out' /\ Appends(o),
           Unborn, \A d \in Reqs : SessionOK(d)
    PROVE  Unborn' /\ \A d \in Reqs : SessionOK(d)'
<1>1. /\ DP!Announced /\ UNCHANGED <<conn, sub, app, eff>>
      /\ req[c].st = "free" /\ \A d \in Reqs \ {c} : web'[d] = web[d]
      /\ \A d \in Reqs : h2o'[d] = "idle" => h2o[d] = "idle"
      /\ \/ c \in PlainReqs /\ DP!http_req_dispatch(c)
         \/ c \in WsReqs /\ DP!http_ws_handshake(c)
         \/ c \in WsReqs /\ DP!http_bad_handshake(c)
  BY ArriveKeeps
<1>2. /\ ~Started(web[c]) /\ sub[c] = 0
      /\ \A o \in In(ova) : o.tag \in SessionTags => o.req # c
      /\ \A e \in In(eff) : e.tag \in DP!WsResponses => e.req # c
  BY <1>1, FreeUnknown
<1>3. web'[c].sat \in {"none", "pending"}
  BY <1>1, <1>2 DEF DP!http_req_dispatch, DP!http_bad_handshake,
                    DP!http_ws_handshake, DP!IInv, DP!TypeOK, Started
<1>4. \A o \in out' : o.req = c /\ o.tag \in {"request", "websocket-handshake"}
                        /\ (o.tag = "websocket-handshake" => c \in WsReqs)
  BY <1>1 DEF DP!http_req_dispatch, DP!http_bad_handshake, DP!Plan,
              DP!http_ws_handshake, DP!PlanNothing
<1>5. \A tag, d : Given(tag, d)' <=> Given(tag, d)
  BY <1>1 DEF Given
<1>6. \A d : Queued("message", d)' => Queued("message", d)
  BY <1>4 DEF Queued, Appends
<1>7. Born \in In(ova') => Born \in In(ova)
  BY <1>4, OvumFields DEF Appends
<1>8. \A d \in Reqs : Accepted(d)' => Accepted(d)
  BY <1>1, <1>3, <1>5, <1>6 DEF Accepted
<1>9. Unborn'
  BY <1>1, <1>7, <1>8 DEF Unborn
<1>10. \A d \in Reqs : told[d] \subseteq told'[d]
  BY <1>1 DEF DP!Announced
<1>11. ASSUME NEW d \in Reqs \ {c} PROVE SessionOK(d)'
  <2>0. Unasked(d) /\ Remembered(d) /\ Answered(d) /\ Known(d)
    BY DEF SessionOK
  <2>1. Queued("websocket-handshake", d)' => Queued("websocket-handshake", d)
    BY <1>4, <1>11 DEF Queued, Appends
  <2>2. \A i : HandshakeAt(i, d)' => HandshakeAt(i, d)
    BY <1>4, <1>11 DEF HandshakeAt, Appends
  <2>3. Unasked(d)'
    BY <1>1, <1>5, <1>8, <2>0, <2>1, <2>2 DEF Unasked
  <2>4. Remembered(d)'
    BY <1>1, <1>10, <2>0 DEF Remembered
  <2>5. Answered(d)'
    BY <1>1, <1>5, <1>8, <2>0 DEF Answered
  <2>6. Known(d)'
    BY <1>1, <1>5, <2>0 DEF Known, Running
  <2> QED
    BY <2>3, <2>4, <2>5, <2>6 DEF SessionOK
<1>12. SessionOK(c)'
  <2>0. Unasked(c) /\ Remembered(c) /\ Answered(c) /\ Known(c)
    BY DEF SessionOK
  <2>1. /\ ~Given("accept", c) /\ ~Given("reject", c)
        /\ ~Queued("message", c) /\ ~Queued("websocket-handshake", c)
    BY <1>2 DEF Given, Queued, DP!WsResponses, SessionTags
  <2>2. ~Accepted(c)'
    BY <1>3, <1>5, <1>6, <2>1 DEF Accepted
  <2>3. c \in WsReqs => conn[c] = "none"
    BY <1>2, <2>0 DEF Remembered
  <2>4. Started(web'[c]) => c \in WsReqs
    BY <1>1, <1>2 DEF DP!http_req_dispatch
  <2>5. Queued("websocket-handshake", c)' => c \in WsReqs
    BY <1>4, <2>1 DEF Queued, Appends
  <2>6. \A i, j : HandshakeAt(i, c)' /\ HandshakeAt(j, c)' => i = j
    <3>1. \A i : ~HandshakeAt(i, c)
      BY <2>1 DEF HandshakeAt, Queued, In
    <3>2. \A i : HandshakeAt(i, c)' => ova' = ova \/ i = Len(ova) + 1
      BY <3>1 DEF HandshakeAt, Appends
    <3> QED
      BY <3>1, <3>2 DEF HandshakeAt
  <2>7. Unasked(c)'
    BY <1>1, <1>2, <1>5, <2>1, <2>2, <2>3, <2>5, <2>6 DEF Unasked
  <2>8. Remembered(c)'
    BY <1>1, <1>2, <2>3, <2>4 DEF Remembered
  <2>9. Answered(c)'
    BY <1>5, <2>1, <2>2 DEF Answered
  <2>10. Known(c)'
    BY <1>3, <1>5, <2>1 DEF Known
  <2> QED
    BY <2>7, <2>8, <2>9, <2>10 DEF SessionOK
<1> QED
  BY <1>9, <1>11, <1>12

\* A session the kernel's step is not about.
LEMMA Unaffected ==
    ASSUME Quiet, NEW d \in Reqs, Routed, SessionOK(d), Unasked(d)',
           conn'[d] = conn[d], sub'[d] = sub[d],
           Started(web[d]) => app'[web[d].wid] = app[web[d].wid],
           Accepted(d)' => Accepted(d),
           \A tag \in {"accept", "reject", "disconnect"} :
              Given(tag, d)' <=> Given(tag, d)
    PROVE  SessionOK(d)'
<1>1. Remembered(d) /\ Answered(d) /\ Known(d)
  BY DEF SessionOK
<1>2. sub[d] # 0 => Started(web[d])
  BY DEF Routed, Owns
<1>3. Given("reject", d) => Started(web[d])
  BY DEF Routed, Owns, Given, DP!WsResponses
<1>4. web' = web /\ h2o' = h2o /\ told' = told /\ fault' = fault
  BY DEF Quiet
<1>5. Remembered(d)'
  BY <1>1, <1>2, <1>4 DEF Remembered
<1>6. Answered(d)'
  BY <1>1, <1>3, <1>4 DEF Answered
<1>7. Known(d)'
  BY <1>1, <1>4 DEF Known
<1> QED
  BY <1>5, <1>6, <1>7 DEF SessionOK

LEMMA ComputeSessions ==
    ASSUME DP!IInv, TypesOK, QueueInv, Routed, births < WidMod, Compute,
           Unborn, \A d \in Reqs : SessionOK(d)
    PROVE  Unborn' /\ \A d \in Reqs : SessionOK(d)'
<1> DEFINE o == Head(ova)
<1>1. /\ Quiet /\ ova # <<>> /\ ova' = Tail(ova)
      /\ o \in DP!Ovum \cup {Born} /\ Takes(o)
      /\ \E G : Gives(G) /\ \A e \in G : e.tag \in {"start", "set-config"}
  BY ComputeShape
<1>2. /\ o \in In(ova) /\ In(ova) = {o} \cup In(ova') /\ o = ova[1]
      /\ 1 \in DOMAIN ova
      /\ \A p \in In(ova') : p.tag # "born"
      /\ \A i \in DOMAIN ova' : i + 1 \in DOMAIN ova /\ i + 1 # 1
                                  /\ ova'[i] = ova[i + 1] /\ i \in Nat
  BY <1>1, QueueTakes, InTail DEF Quiet, TypesOK
<1> HIDE DEF o
<1>3. /\ o # Born => /\ o \in DP!Ovum /\ o.req \in Reqs /\ o.tag # "born"
                     /\ o.tag \in told[o.req]
      /\ o.tag = "request" => o.req \in PlainReqs
      /\ o.tag \in SessionTags => o # Born /\ Owns(o.req, o.wid)
  BY <1>1, <1>2, OvumFields DEF QueueInv, Routed, Born, SessionTags
<1>4. \A d : \A tag \in {"accept", "reject", "disconnect"} :
         Given(tag, d)' <=> Given(tag, d)
  BY <1>1 DEF Given, Gives
<1>5. \A tag, d : Queued(tag, d)' => Queued(tag, d)
  BY <1>2 DEF Queued
<1>6. web' = web /\ h2o' = h2o /\ told' = told /\ fault' = fault
  BY <1>1 DEF Quiet
<1>7. \A d \in Reqs : Accepted(d)' => Accepted(d)
  BY <1>4, <1>5, <1>6 DEF Accepted
<1>8. Unborn'
  BY <1>2 DEF Unborn, Born
<1>9. ASSUME NEW d \in Reqs, NEW i, NEW j, HandshakeAt(i, d)', HandshakeAt(j, d)'
      PROVE  i = j
  <2>1. /\ HandshakeAt(i + 1, d) /\ HandshakeAt(j + 1, d)
        /\ i \in Nat /\ j \in Nat
    BY <1>2, <1>9 DEF HandshakeAt
  <2>2. i + 1 = j + 1
    BY <2>1 DEF SessionOK, Unasked
  <2> QED
    BY <2>1, <2>2
<1>10. ASSUME NEW d \in Reqs, o.tag = "websocket-handshake", o.req = d
       PROVE  ~Queued("websocket-handshake", d)'
  <2> SUFFICES ASSUME NEW i \in DOMAIN ova',
                      ova'[i].tag = "websocket-handshake", ova'[i].req = d
               PROVE  FALSE
    BY DEF Queued, In
  <2>1. HandshakeAt(i + 1, d) /\ HandshakeAt(1, d) /\ i + 1 # 1
    BY <1>2, <1>10 DEF HandshakeAt
  <2> QED
    BY <2>1 DEF SessionOK, Unasked
<1>11. \A d \in Reqs : Queued("websocket-handshake", d) => d \in WsReqs
  BY DEF Queued, Routed, SessionTags, Owns
<1>12. \A d \in Reqs : o.tag \in SessionTags /\ d # o.req /\ Started(web[d])
                         => web[d].wid # o.wid /\ web[d].wid \in Eyre!Wids
  BY <1>3, OwnId, OwnWid DEF Owns
<1>13. ASSUME NEW d \in Reqs,
              conn'[d] = conn[d] \/ ~Queued("websocket-handshake", d)',
              sub'[d] = sub[d] \/ ~Queued("websocket-handshake", d)'
       PROVE  Unasked(d)'
  BY <1>4, <1>5, <1>7, <1>9, <1>13 DEF SessionOK, Unasked
<1>14. ASSUME NEW d \in Reqs, o = Born \/ d # o.req PROVE SessionOK(d)'
  <2>1. conn'[d] = conn[d] /\ sub'[d] = sub[d]
    <3>1. CASE o = Born
      <4>1. conn' = [c \in Reqs |-> "none"] /\ sub' = sub
        BY <1>1, <3>1, OvumFields DEF Takes
      <4>2. conn[d] = "none"
        BY <1>2, <3>1 DEF Unborn
      <4> QED
        BY <4>1, <4>2
    <3>2. CASE o # Born
      <4>1. conn' = conn \/ \E a : conn' = [conn EXCEPT ![o.req] = a]
        BY <1>1, <3>2 DEF Takes, Forgets
      <4>2. sub' = sub \/ \E a : sub' = [sub EXCEPT ![o.req] = a]
        BY <1>1, <3>2, Zenon DEF Takes
      <4> QED
        BY <1>14, <3>2, <4>1, <4>2 DEF TypesOK
    <3> QED
      BY <3>1, <3>2
  <2>2. Started(web[d]) => app'[web[d].wid] = app[web[d].wid]
    <3>1. app' = app \/ (/\ o.tag \in SessionTags /\ o # Born
                         /\ \E a : app' = [app EXCEPT ![o.wid] = a])
      BY <1>1, <1>3 DEF Takes, SessionTags
    <3> QED
      BY <1>12, <1>14, <3>1 DEF TypesOK
  <2>3. Unasked(d)'
    BY <1>13, <2>1
  <2> QED
    BY <1>1, <1>4, <1>7, <2>1, <2>2, <2>3, Unaffected
<1>15. ASSUME NEW c \in Reqs, o # Born, c = o.req PROVE SessionOK(c)'
  <2>0. /\ o \in DP!Ovum /\ o.tag \in told[c]
        /\ Unasked(c) /\ Remembered(c) /\ Answered(c) /\ Known(c)
    BY <1>3, <1>15 DEF SessionOK
  <2>1. o.tag \in SessionTags =>
          /\ Started(web[c]) /\ web[c].wid = o.wid /\ o.wid \in Eyre!Wids
          /\ c \in WsReqs
    BY <1>3, <1>15, <2>0, OwnWid DEF Owns, Routed
  <2>2. CASE o.tag = "request"
    <3>1. conn' = [conn EXCEPT ![c] = "new"] /\ UNCHANGED <<sub, app>>
      BY <1>1, <1>15, <2>2 DEF Takes, SessionTags
    <3>2. c \notin WsReqs
      BY <1>3, <1>15, <2>2, KindAssumption
    <3>3. ~Started(web[c])
      BY <2>0, <3>2 DEF Routed
    <3>4. ~Queued("websocket-handshake", c)'
      BY <1>5, <1>11, <2>0, <3>2
    <3>5. Unasked(c)'
      BY <1>13, <2>0, <3>4
    <3>6. sub[c] = 0 /\ ~Given("reject", c)
      BY <2>0, <3>3 DEF Routed, Owns, Given, DP!WsResponses
    <3>7. conn'[c] = "new"
      BY <2>0, <3>1 DEF TypesOK
    <3> QED
      BY <1>4, <1>6, <1>7, <2>0, <3>1, <3>2, <3>3, <3>5, <3>6, <3>7
      DEF SessionOK, Remembered, Answered, Known
  <2>3. CASE o.tag = "cancel-request"
    <3>1. conn' = [conn EXCEPT ![c] = "none"] /\ UNCHANGED <<sub, app>>
      BY <1>1, <1>15, <2>3 DEF Takes, Forgets, SessionTags
    <3>2. conn'[c] = "none"
      BY <2>0, <3>1 DEF TypesOK
    <3>3. Unasked(c)'
      BY <1>5, <1>13, <2>0, <3>1, <3>2 DEF Unasked
    <3>4. Remembered(c)'
      BY <1>6, <2>0, <2>3, <3>2 DEF Remembered
    <3>5. Answered(c)'
      BY <1>4, <1>6, <1>7, <2>0, <3>1 DEF Answered
    <3>6. Known(c)'
      <4>1. fault = "none" => DP!ReportOK(req[c], web[c], h2o[c], told[c])
        BY <2>0 DEF DP!IInv, DP!ReportInv
      <4>2. fault = "none" => /\ web[c].sat # "open"
                              /\ web[c].sat = "pending" => h2o[c] # "idle"
        BY <2>0, <2>3, <4>1 DEF DP!ReportOK
      <4> QED
        BY <1>6, <4>2 DEF Known
    <3> QED
      BY <3>3, <3>4, <3>5, <3>6 DEF SessionOK
  <2>4. CASE o.tag \in SessionTags /\ UNCHANGED <<conn, sub, app>>
    <3>1. Unasked(c)'
      BY <1>13, <2>0, <2>4
    <3> QED
      BY <1>1, <1>4, <1>7, <2>0, <2>4, <3>1, Unaffected DEF SessionOK
  <2>5. CASE /\ o.tag = "websocket-handshake"
             /\ app' = [app EXCEPT ![o.wid] = "asked"]
             /\ \/ /\ conn' = [conn EXCEPT ![c] = "new"]
                   /\ sub' = [sub EXCEPT ![c] = o.wid]
                \/ /\ conn' = [conn EXCEPT ![c] = "none"]
                   /\ UNCHANGED sub
    <3>1. Queued("websocket-handshake", c)
      BY <1>2, <1>15, <2>5 DEF Queued
    <3>2. /\ conn[c] = "none" /\ sub[c] = 0 /\ ~Accepted(c)
          /\ ~Given("reject", c)
      BY <2>0, <3>1 DEF Unasked
    <3>3. ~Accepted(c)' /\ ~Given("reject", c)' /\ ~Given("accept", c)'
          /\ web'[c].sat # "open"
      BY <1>4, <1>6, <1>7, <2>0, <3>2 DEF Accepted
    <3>4. app'[web[c].wid] = "asked"
      BY <2>1, <2>5 DEF TypesOK, SessionTags
    <3>5. \/ conn'[c] = "new" /\ sub'[c] = web[c].wid
          \/ conn'[c] = "none" /\ sub'[c] = 0
      BY <2>0, <2>1, <2>5, <3>2 DEF TypesOK, SessionTags
    <3>6. Unasked(c)'
      BY <1>10, <1>13, <1>15, <2>0, <2>5
    <3>7. Remembered(c)'
      BY <1>6, <2>0, <2>1, <2>5, <3>4, <3>5 DEF Remembered, SessionTags
    <3>8. Answered(c)' /\ Known(c)'
      BY <3>3 DEF Answered, Known
    <3> QED
      BY <3>6, <3>7, <3>8 DEF SessionOK
  <2>6. CASE /\ o.tag = "disconnect" /\ conn[c] # "none"
             /\ conn' = [conn EXCEPT ![c] = "none"]
             /\ sub' = [sub EXCEPT ![c] = IF sub[c] = o.wid THEN 0 ELSE sub[c]]
             /\ app' = [app EXCEPT ![o.wid] = "ended"]
    <3>1. conn'[c] = "none" /\ app'[web[c].wid] = "ended"
      BY <2>0, <2>1, <2>6 DEF TypesOK, SessionTags
    <3>2. ~Queued("websocket-handshake", c)'
      BY <1>5, <2>0, <2>6 DEF Unasked
    <3>3. Unasked(c)'
      BY <1>13, <2>0, <3>2
    <3>4. fault = "none" => web[c].sat \in {"closed", "freed"}
      <4>1. fault = "none" => DP!ReportOK(req[c], web[c], h2o[c], told[c])
        BY <2>0 DEF DP!IInv, DP!ReportInv
      <4> QED
        BY <2>0, <2>6, <4>1 DEF DP!ReportOK
    <3>5. Remembered(c)'
      BY <1>6, <3>1 DEF Remembered
    <3>6. Answered(c)'
      BY <1>4, <1>6, <1>7, <2>0, <3>1 DEF Answered
    <3>7. Known(c)'
      BY <1>6, <3>4 DEF Known
    <3> QED
      BY <3>3, <3>5, <3>6, <3>7 DEF SessionOK
  <2> QED
    BY <1>1, <1>15, <2>2, <2>3, <2>4, <2>5, <2>6, Zenon
    DEF Takes, Forgets
<1> QED
  BY <1>8, <1>14, <1>15

LEMMA FactSessions ==
    ASSUME DP!IInv, TypesOK, Routed, births < WidMod, Running,
           Quiet, ova' = ova, NEW G, Gives(G), NEW w \in Eyre!Wids,
           (\E tag \in DP!WsResponses : Facts(w, tag, G)) \/ BadMark(w, G),
           NEW d \in Reqs, SessionOK(d)
    PROVE  SessionOK(d)'
<1> DEFINE S == Eyre!Subscribers(w)
<1>0. Unasked(d) /\ Remembered(d) /\ Answered(d) /\ Known(d)
  BY DEF SessionOK
<1>1. /\ web' = web /\ h2o' = h2o /\ told' = told /\ fault' = fault
      /\ fault = "none"
  BY DEF Quiet, Running
<1>2. \A c \in S : c \in Reqs /\ sub[c] = w /\ w # 0 /\ Owns(c, w)
  BY SubscribersFinite DEF Routed
<1>3. \A tag, c : Queued(tag, c)' <=> Queued(tag, c)
  BY DEF Queued
<1>4. \A i, c : HandshakeAt(i, c)' <=> HandshakeAt(i, c)
  BY DEF HandshakeAt
<1>5. \A tag : \A c : Given(tag, c) => Given(tag, c)'
  BY DEF Given, Gives
<1>6. /\ d \in S <=> sub[d] = w
      /\ app \in [Eyre!Wids -> {"unknown", "asked", "accepted", "ended"}]
      /\ conn \in [Reqs -> {"none", "new", "started"}]
      /\ sub \in [Reqs -> 0 .. (WidMod - 1)]
  BY DEF Eyre!Subscribers, TypesOK
<1> HIDE DEF S
<1>7. ASSUME NEW tag \in {"accept", "reject", "disconnect"},
             Given(tag, d)', ~Given(tag, d)
      PROVE  d \in S /\ \A t : Facts(w, t, G) => t = tag
  <2>1. PICK e \in G : e.tag = tag /\ e.req = d
    BY <1>7 DEF Given, Gives
  <2>2. \A t : Facts(w, t, G) => \E c \in S : e = Gift(t, c, w)
    BY <2>1 DEF Facts, S
  <2>3. \E t : Facts(w, t, G)
    BY <2>1 DEF BadMark
  <2> QED
    BY <2>1, <2>2, <2>3 DEF Gift
<1>8. CASE ~Owns(d, w)
  <2>1. d \notin S
    BY <1>2, <1>8
  <2>2. conn'[d] = conn[d] /\ sub'[d] = sub[d]
    BY <1>6, <2>1 DEF Facts, BadMark, S
  <2>3. Started(web[d]) => app'[web[d].wid] = app[web[d].wid]
    <3>1. Started(web[d]) => web[d].wid # w /\ web[d].wid \in Eyre!Wids
      BY <1>8, OwnWid DEF Owns
    <3>2. \E a : app' = [app EXCEPT ![w] = a]
      BY DEF Facts, BadMark
    <3> QED
      BY <1>6, <3>1, <3>2
  <2>4. \A tag \in {"accept", "reject", "disconnect"} :
           Given(tag, d)' <=> Given(tag, d)
    BY <1>5, <1>7, <2>1
  <2>5. Accepted(d)' => Accepted(d)
    BY <1>1, <1>3, <2>4 DEF Accepted
  <2>6. Unasked(d)'
    BY <1>0, <1>3, <1>4, <2>2, <2>4, <2>5 DEF Unasked
  <2> QED
    BY <2>2, <2>3, <2>4, <2>5, <2>6, Unaffected
<1>9. CASE Owns(d, w)
  <2>1. Started(web[d]) /\ web[d].wid = w
    BY <1>9 DEF Owns
  <2>2. d \in S => S = {d}
    BY <1>2, <2>1, OwnId DEF Owns
  <2>3. conn[d] # "none" => d \in S
    BY <1>0, <1>6, <2>1 DEF Remembered
  <2>4. Queued("websocket-handshake", d) =>
          /\ d \notin S /\ conn[d] = "none" /\ sub[d] = 0 /\ ~Accepted(d)
          /\ ~Given("reject", d)
    <3>1. w # 0
      BY WidModAssumption DEF Eyre!Wids
    <3> QED
      BY <1>0, <1>6, <3>1 DEF Unasked
  <2>5. sub'[d] = sub[d] \/ sub'[d] = 0
    BY <1>6 DEF Facts, BadMark
  <2>6. app[w] = "asked" => /\ ~Accepted(d) /\ web[d].sat # "open"
                            /\ ~Given("accept", d) /\ ~Given("reject", d)
    BY <1>0, <2>1 DEF Answered, Accepted
  <2>7. ASSUME app'[w] # "asked",
               Accepted(d)' => Accepted(d) \/ app[w] = "asked",
               Queued("websocket-handshake", d) => conn'[d] = "none",
               conn'[d] # "none" => sub'[d] = w /\ app'[w] = "accepted",
               Given("reject", d)' => /\ ~Given("accept", d)'
                                      /\ web[d].sat # "open",
               Known(d)'
        PROVE  SessionOK(d)'
    <3>1. Queued("websocket-handshake", d)
            => ~Accepted(d)' /\ ~Given("reject", d)'
      BY <1>1, <1>3, <1>7, <2>4 DEF Accepted
    <3>2. Unasked(d)'
      BY <1>0, <1>3, <1>4, <2>4, <2>5, <2>7, <3>1 DEF Unasked
    <3>3. Remembered(d)'
      BY <1>1, <2>1, <2>7 DEF Remembered
    <3>4. Answered(d)'
      BY <1>1, <2>1, <2>7 DEF Answered
    <3> QED
      BY <2>7, <3>2, <3>3, <3>4 DEF SessionOK
  <2>8. CASE Facts(w, "accept", G)
    <3>1. /\ app[w] = "asked" /\ app'[w] = "accepted" /\ conn'[d] = conn[d]
          /\ sub' = sub
      BY <1>6, <2>8 DEF Facts
    <3>2. Given("reject", d)' <=> Given("reject", d)
      BY <1>5, <1>7, <2>8
    <3>3. Known(d)'
      <4> SUFFICES ASSUME conn[d] = "none", web[d].sat = "pending",
                          h2o[d] = "idle", Given("accept", d)'
                   PROVE  FALSE
        BY <1>1, <2>6, <3>1 DEF Known
      <4>1. d \in S
        BY <1>7, <2>6, <3>1
      <4>2. sub[d] # 0
        BY <1>2, <4>1
      <4>3. told[d] \cap {"cancel-request", "disconnect"} # {}
        BY <1>0, <2>1, <3>1, <4>2 DEF Remembered
      <4>4. DP!ReportOK(req[d], web[d], h2o[d], told[d])
        BY <1>1 DEF DP!IInv, DP!ReportInv
      <4> QED
        BY <4>3, <4>4 DEF DP!ReportOK
    <3>4. conn[d] # "none" => sub[d] = w
      BY <1>6, <2>3
    <3> QED
      BY <2>4, <2>6, <2>7, <3>1, <3>2, <3>3, <3>4
  <2>9. CASE Facts(w, "reject", G)
    <3>1. /\ app[w] = "asked" /\ app'[w] = "ended" /\ sub' = sub
          /\ conn'[d] = "none"
      BY <1>6, <2>3, <2>9 DEF Facts, S
    <3>2. ~Given("accept", d)'
      BY <1>7, <2>6, <2>9, <3>1
    <3>3. Known(d)'
      BY <1>1, <2>6, <3>1, <3>2 DEF Known
    <3> QED
      BY <2>6, <2>7, <3>1, <3>2, <3>3
  <2>10. CASE Facts(w, "message", G)
    <3>1. /\ app'[w] = app[w] /\ conn'[d] = conn[d] /\ sub' = sub
      BY <1>6, <2>10 DEF Facts
    <3>2. \A tag \in {"accept", "reject", "disconnect"} :
             Given(tag, d)' <=> Given(tag, d)
      <4>1. ASSUME NEW tag \in {"accept", "reject", "disconnect"},
                   Given(tag, d)', ~Given(tag, d)
            PROVE  FALSE
        <5>1. PICK e \in G : e.tag = tag
          BY <4>1 DEF Given, Gives
        <5> QED
          BY <2>10, <5>1 DEF Facts, Gift
      <4> QED
        BY <1>5, <4>1
    <3>3. Accepted(d)' => Accepted(d)
      BY <1>1, <1>3, <3>2 DEF Accepted
    <3>4. Unasked(d)'
      BY <1>0, <1>3, <1>4, <3>1, <3>2, <3>3 DEF Unasked
    <3> QED
      BY <2>1, <3>1, <3>2, <3>3, <3>4, Unaffected
  <2>11. CASE Facts(w, "disconnect", G)
    <3>1. /\ app[w] = "accepted" /\ app'[w] = "ended" /\ conn'[d] = "none"
      BY <1>6, <2>3, <2>11 DEF Facts, S
    <3>2. \A tag \in {"accept", "reject"} : Given(tag, d)' <=> Given(tag, d)
      BY <1>5, <1>7, <2>11
    <3>3. Accepted(d)' => Accepted(d)
      BY <1>1, <1>3, <3>2 DEF Accepted
    <3>4. Known(d)'
      <4>1. conn[d] # "none" => Given("disconnect", d)'
        <5>1. conn[d] # "none" => Gift("disconnect", d, w) \in G
          BY <2>2, <2>3, <2>11 DEF Facts, S
        <5> QED
          BY <5>1 DEF Given, Gives, Gift
      <4> QED
        BY <1>0, <1>1, <1>5, <3>2, <4>1 DEF Known
    <3>5. Given("reject", d)' => ~Given("accept", d)' /\ web[d].sat # "open"
      BY <1>0, <3>2 DEF Answered
    <3> QED
      BY <2>7, <3>1, <3>3, <3>4, <3>5
  <2>12. CASE BadMark(w, G)
    <3>1. /\ app[w] = "asked" /\ app'[w] = "accepted" /\ sub' = sub
          /\ conn'[d] = "none"
      BY <1>6, <2>3, <2>12 DEF BadMark, S
    <3>2. \A tag \in {"accept", "reject", "disconnect"} :
             Given(tag, d)' <=> Given(tag, d)
      <4>1. \A e \in G : e.tag = "start"
        BY <2>12 DEF BadMark
      <4> QED
        BY <1>5, <4>1 DEF Given, Gives
    <3>3. Known(d)'
      BY <1>1, <2>6, <3>1, <3>2 DEF Known
    <3> QED
      BY <2>6, <2>7, <3>1, <3>2, <3>3
  <2> QED
    BY <2>8, <2>9, <2>10, <2>11, <2>12 DEF DP!WsResponses
<1> QED
  BY <1>8, <1>9

LEMMA ActsSessions ==
    ASSUME DP!IInv, TypesOK, QueueInv, Routed, births < WidMod, Running,
           Agent \/ Configure, Unborn, \A d \in Reqs : SessionOK(d)
    PROVE  Unborn' /\ \A d \in Reqs : SessionOK(d)'
<1>1. Quiet /\ ova' = ova
  BY ActsShape
<1>2. PICK G : Gives(G) /\ Acts(G)
  BY ActsShape
<1>3. web' = web /\ h2o' = h2o /\ told' = told /\ fault' = fault
  BY <1>1 DEF Quiet
<1>4. \A tag, c : Queued(tag, c)' <=> Queued(tag, c)
  BY <1>1 DEF Queued
<1>5. \A i, c : HandshakeAt(i, c)' <=> HandshakeAt(i, c)
  BY <1>1 DEF HandshakeAt
<1>6. ASSUME NEW w \in Eyre!Wids,
             (\E tag \in DP!WsResponses : Facts(w, tag, G)) \/ BadMark(w, G)
      PROVE  Unborn' /\ \A d \in Reqs : SessionOK(d)'
  <2>1. \A d \in Reqs : SessionOK(d)'
    BY <1>1, <1>2, <1>6, FactSessions
  <2>2. Unborn'
    <3> SUFFICES ASSUME Born \in In(ova), NEW d \in Reqs
                 PROVE  conn'[d] = "none" /\ sub'[d] = 0 /\ ~Accepted(d)'
      BY <1>1 DEF Unborn
    <3>1. \A c \in Reqs : conn[c] = "none" /\ sub[c] = 0 /\ ~Accepted(c)
      BY DEF Unborn
    <3>2. Eyre!Subscribers(w) = {}
      BY <3>1, SubscribersFinite
    <3>3. conn'[d] = "none" /\ sub'[d] = 0
      BY <1>6, <3>1, <3>2 DEF Facts, BadMark
    <3>4. ~Given("accept", d)'
      <4>1. \A e \in G : e.tag = "start"
        BY <1>6, <3>2 DEF Facts, BadMark
      <4> QED
        BY <1>2, <3>1, <4>1 DEF Given, Gives, Accepted
    <3> QED
      BY <1>3, <1>4, <3>1, <3>3, <3>4 DEF Accepted
  <2> QED
    BY <2>1, <2>2
<1>7. ASSUME \A e \in G : e.tag \notin DP!WsResponses, UNCHANGED <<sub, app>>,
             NEW c, c \notin WsReqs,
             \A d \in Reqs \ {c} : conn'[d] = conn[d],
             conn'[c] = conn[c] \/ conn[c] # "none"
      PROVE  Unborn' /\ \A d \in Reqs : SessionOK(d)'
  <2>1. \A d : \A tag \in {"accept", "reject", "disconnect"} :
           Given(tag, d)' <=> Given(tag, d)
    BY <1>2, <1>7 DEF Given, Gives, DP!WsResponses
  <2>2. \A d : Accepted(d)' <=> Accepted(d)
    BY <1>3, <1>4, <2>1 DEF Accepted
  <2>3. Unborn'
    BY <1>1, <1>7, <2>2 DEF Unborn
  <2>4. ASSUME NEW d \in Reqs \ {c} PROVE SessionOK(d)'
    <3>1. Unasked(d)'
      BY <1>4, <1>5, <1>7, <2>1, <2>2 DEF SessionOK, Unasked
    <3> QED
      BY <1>1, <1>7, <2>1, <2>2, <3>1, Unaffected
  <2>5. ASSUME c \in Reqs PROVE SessionOK(c)'
    <3>1. ~Started(web[c]) /\ ~Queued("websocket-handshake", c)
          /\ ~Given("reject", c) /\ sub[c] = 0
      BY <1>7, <2>5
      DEF Routed, Owns, Queued, Given, SessionTags, DP!WsResponses
    <3>2. Unasked(c)'
      BY <1>4, <1>5, <2>5, <3>1 DEF SessionOK, Unasked
    <3>3. Remembered(c)' /\ Answered(c)' /\ Known(c)'
      BY <1>3, <1>7, <2>1, <3>1 DEF Remembered, Answered, Known, Started
    <3> QED
      BY <3>2, <3>3 DEF SessionOK
  <2> QED
    BY <2>3, <2>4, <2>5
<1>8. CASE \E c \in PlainReqs : \E a \in {"none", "started"} :
             conn[c] # "none" /\ conn' = [conn EXCEPT ![c] = a]
  <2>1. PICK c \in PlainReqs : \E a \in {"none", "started"} :
             conn[c] # "none" /\ conn' = [conn EXCEPT ![c] = a]
    BY <1>8
  <2>2. c \notin WsReqs
    BY KindAssumption
  <2>3. \A d \in Reqs \ {c} : conn'[d] = conn[d]
    BY <2>1 DEF TypesOK
  <2>4. CASE (\A e \in G : e.tag \notin DP!WsResponses) /\ UNCHANGED <<sub, app>>
    BY <1>7, <2>1, <2>2, <2>3, <2>4
  <2> QED
    BY <1>2, <1>6, <2>4 DEF Acts, DP!WsResponses
<1>9. CASE conn' = conn
  <2>1. CASE (\A e \in G : e.tag \notin DP!WsResponses) /\ UNCHANGED <<sub, app>>
    <3>1. PICK c : c \notin WsReqs
      <4>1. (CHOOSE x : x \notin WsReqs) \notin WsReqs
        BY NoSetContainsEverything
      <4> QED
        BY <4>1
    <3> QED
      BY <1>7, <1>9, <2>1, <3>1
  <2> QED
    BY <1>2, <1>6, <1>9, <2>1 DEF Acts, DP!WsResponses
<1> QED
  BY <1>2, <1>6, <1>8, <1>9 DEF Acts

-----------------------------------------------------------------------------
(* The inductive invariant. *)

LEMMA InitInv == Init => IInv
<1> SUFFICES ASSUME Init PROVE IInv
  OBVIOUS
<1>1. DP!IInv
  <2>1. DP!Init
    <3>1. DP!NoReq = Driver!NoReq /\ DP!NoWeb = Driver!NoWeb
      BY DEF Driver!NoReq, DP!NoReq, Driver!NoWeb, DP!NoWeb
    <3> QED
      BY <3>1 DEF Init, Driver!Init, DP!Init
  <2> QED
    BY <2>1, DP!InitInv, WidModAssumption
<1>2. ova = <<Born>> /\ Born \in DP!Ovum \cup {Born}
  BY DEF Init, Born
<1>3. ova \in Seq(DP!Ovum \cup {Born}) /\ In(ova) = {Born}
  BY <1>2, InOne
<1>4. /\ conn = [c \in Reqs |-> "none"] /\ sub = [c \in Reqs |-> 0]
      /\ app = [w \in Eyre!Wids |-> "unknown"] /\ eff = <<>> /\ restarts = 0
      /\ web = [c \in Reqs |-> Driver!NoWeb]
  BY DEF Init, Eyre!EyreInit, Driver!Init
<1>5. \A c \in Reqs : web[c].sat = "none"
  BY <1>4 DEF Driver!NoWeb
<1>6. TypesOK
  <2>1. {c \in Reqs : sub[c] # 0} = {}
    BY <1>4
  <2>2. IsFiniteSet({c \in Reqs : sub[c] # 0})
    BY <2>1, FS_EmptySet
  <2>3. 0 \in 0 .. (WidMod - 1)
    BY WidModAssumption
  <2>4. eff \in Seq(DP!Effects) /\ restarts \in Nat
    BY <1>4
  <2>5. /\ conn \in [Reqs -> {"none", "new", "started"}]
        /\ sub \in [Reqs -> 0 .. (WidMod - 1)]
        /\ app \in [Eyre!Wids -> {"unknown", "asked", "accepted", "ended"}]
    BY <1>4, <2>3
  <2> QED
    BY <1>3, <2>2, <2>4, <2>5 DEF TypesOK
<1>7. QueueInv /\ KnownIsCurrent
  BY <1>2, <1>3 DEF QueueInv, KnownIsCurrent, Born
<1>8. \A tag, c : (~Given(tag, c) /\ ~Queued(tag, c)) \/ tag = "born"
  BY <1>3, <1>4 DEF Given, Queued, In, Born
<1>9. Routed
  BY <1>3, <1>4, <1>5 DEF Routed, In, Born, SessionTags, Started
<1>10. Unborn
  BY <1>4, <1>5, <1>8 DEF Unborn, Accepted
<1>11. ASSUME NEW c \in Reqs PROVE SessionOK(c)
  <2>1. \A i : ~HandshakeAt(i, c)
    BY <1>2 DEF HandshakeAt, Born
  <2> QED
    BY <1>4, <1>5, <1>8, <2>1
    DEF SessionOK, Unasked, Remembered, Answered, Known, Accepted, Started
<1> QED
  BY <1>1, <1>6, <1>7, <1>9, <1>10, <1>11 DEF IInv

LEMMA BirthsGrow ==
    ASSUME IInv, NEW c \in Reqs, Arrive(c), births' < WidMod
    PROVE  births < WidMod
<1>1. births \in Nat /\ WidMod \in Nat
  BY WidModAssumption DEF IInv, DP!IInv, DP!TypeOK
<1>2. births' = births \/ births' = births + 1
  <2>1. \/ DP!http_req_dispatch(c) \/ DP!http_ws_handshake(c)
        \/ DP!http_bad_handshake(c)
    BY SameArrival DEF Arrive
  <2> QED
    BY <2>1 DEF DP!http_req_dispatch, DP!http_ws_handshake,
                DP!http_bad_handshake
<1> QED
  BY <1>1, <1>2

LEMMA NextInv == ASSUME IInv, [Next]_vars PROVE IInv'
<1>0. DP!IInv /\ TypesOK /\ QueueInv /\ KnownIsCurrent
  BY DEF IInv
<1>1. CASE Running /\ \E c \in Reqs : Arrive(c)
  <2>1. PICK c \in Reqs : Arrive(c)
    BY <1>1
  <2>2. DP!IInv' /\ restarts' = restarts
    BY <1>0, <1>1, <2>1, ArriveKeeps
  <2>3. /\ TypesOK' /\ QueueInv' /\ KnownIsCurrent'
        /\ \/ ova' = ova
           \/ \E o \in DP!Ovum : o \in out' /\ Appends(o)
    BY <1>0, <1>1, <2>1, ArriveBase
  <2>4. restarts = 0 => Routed'
    BY <1>0, <1>1, <2>1, <2>3, ArriveRouted DEF IInv
  <2>5. restarts = 0 /\ births' < WidMod
          => Unborn' /\ \A d \in Reqs : SessionOK(d)'
    BY <1>0, <1>1, <2>1, <2>3, ArriveSessions, BirthsGrow DEF IInv
  <2> QED
    BY <2>2, <2>3, <2>4, <2>5 DEF IInv
<1>2. ASSUME Moves, Running,
             eff' = eff \/ (eff # <<>> /\ eff' = Tail(eff)),
             restarts = 0 /\ births < WidMod => Released
      PROVE  IInv'
  <2>1. /\ TypesOK' /\ QueueInv' /\ KnownIsCurrent'
        /\ \/ ova' = ova
           \/ \E o \in DP!Ovum : DP!Reported(o) /\ Appends(o)
    BY <1>0, <1>2, MovesBase
  <2>2. DP!IInv' /\ restarts' = restarts /\ births' = births
    BY <1>2 DEF Moves
  <2>3. In(eff') \subseteq In(eff)
    BY <1>0, <1>2, InTail DEF TypesOK
  <2>4. restarts = 0 => Routed'
    BY <1>0, <1>2, <2>1, <2>3, MovesRouted DEF IInv
  <2>5. restarts = 0 /\ births < WidMod
          => Unborn' /\ \A d \in Reqs : SessionOK(d)'
    BY <1>0, <1>2, <2>1, MovesSessions DEF IInv
  <2> QED
    BY <2>1, <2>2, <2>4, <2>5 DEF IInv
<1>3. CASE Running /\ \E c \in Reqs : Callback(c)
  BY <1>0, <1>2, <1>3, CallbackMoves, KeptReleased
<1>4. CASE Running /\ Reconfigure
  BY <1>0, <1>2, <1>4, ReconfigureMoves, KeptReleased
<1>5. CASE Running /\ Release
  <2>1. Moves /\ eff # <<>> /\ eff' = Tail(eff)
    BY <1>0, <1>5, ReleaseMoves
  <2>2. restarts = 0 /\ births < WidMod => Released
    BY <1>0, <1>5, ReleaseReleased DEF IInv, SessionOK
  <2> QED
    BY <1>2, <1>5, <2>1, <2>2
<1>6. CASE Running /\ Compute
  <2>1. DP!IInv' /\ TypesOK' /\ QueueInv' /\ KnownIsCurrent'
    BY <1>0, <1>6, ComputeBase
  <2>2. restarts' = restarts /\ births' = births
    BY <1>6 DEF Compute
  <2>3. restarts = 0 => Routed'
    BY <1>0, <1>6, ComputeRouted DEF IInv
  <2>4. restarts = 0 /\ births < WidMod
          => Unborn' /\ \A d \in Reqs : SessionOK(d)'
    BY <1>0, <1>6, ComputeSessions DEF IInv
  <2> QED
    BY <2>1, <2>2, <2>3, <2>4 DEF IInv
<1>7. CASE Running /\ (Agent \/ Configure)
  <2>1. DP!IInv' /\ TypesOK' /\ QueueInv' /\ KnownIsCurrent'
    BY <1>0, <1>7, ActsBase
  <2>2. restarts' = restarts /\ births' = births
    BY <1>7 DEF Agent, Configure
  <2>3. restarts = 0 => Routed'
    BY <1>0, <1>7, ActsRouted DEF IInv
  <2>4. restarts = 0 /\ births < WidMod
          => Unborn' /\ \A d \in Reqs : SessionOK(d)'
    BY <1>0, <1>7, ActsSessions DEF IInv
  <2> QED
    BY <2>1, <2>2, <2>3, <2>4 DEF IInv
<1>8. CASE Restart
  BY <1>0, <1>8, RestartBase DEF IInv
<1>9. CASE UNCHANGED vars
  <2>1. DP!IInv'
    <3>1. UNCHANGED <<req, web, h2o, wid_l, births, serv, out, told, fault>>
      BY <1>9 DEF vars, driverVars
    <3> QED
      BY <1>0, <3>1, DP!NextInv, WidModAssumption DEF DP!vars
  <2>2. /\ UNCHANGED <<conn, sub, app, eff, ova, restarts>>
        /\ UNCHANGED <<web, h2o, births, told, fault>>
    BY <1>9 DEF vars, driverVars, eyreVars
  <2>3. TypesOK' /\ QueueInv' /\ KnownIsCurrent'
    BY <1>0, <2>2 DEF TypesOK, QueueInv, KnownIsCurrent, In
  <2>4. Routed' <=> Routed
    BY <2>2 DEF Routed, Owns, In
  <2>5. Unborn' <=> Unborn
    BY <2>2 DEF Unborn, Accepted, Given, Queued, In
  <2>6. ASSUME NEW c \in Reqs, SessionOK(c) PROVE SessionOK(c)'
    BY <2>2, <2>6 DEF SessionOK, Unasked, Remembered, Answered, Known,
       Accepted, Given, Queued, HandshakeAt, In
  <2> QED
    BY <2>1, <2>2, <2>3, <2>4, <2>5, <2>6 DEF IInv
<1> QED
  BY <1>1, <1>3, <1>4, <1>5, <1>6, <1>7, <1>8, <1>9 DEF Next

\* What the safety of the serving side rests on, kept by every step of the
\* runtime, of the kernel and of a restart.
THEOREM Inductive == Spec => []IInv
BY InitInv, NextInv, PTL DEF Spec

\* The id is enough for _http_ws_find(): until the first process has given
\* WidMod - 1 ids, a %websocket-response acts on the session of the duct eyre
\* gave it on.
THEOREM EffectsRouted ==
    Spec => [](restarts = 0 /\ births < WidMod => RoutedToOwner)
<1>1. IInv => (restarts = 0 /\ births < WidMod => RoutedToOwner)
  <2> SUFFICES ASSUME IInv, restarts = 0, births < WidMod,
                      NEW i \in DOMAIN eff, eff[i].tag \in Driver!WsResponses,
                      NEW c \in Reqs, Driver!Found(c, eff[i].wid)
               PROVE  c = eff[i].req
    BY DEF RoutedToOwner
  <2>1. /\ eff[i] \in In(eff) /\ eff[i] \in DP!Effects
        /\ eff[i].tag \in DP!WsResponses /\ DP!Found(c, eff[i].wid)
    BY SamePieces DEF IInv, TypesOK, In
  <2> QED
    BY <2>1, FoundIsOwner DEF IInv
<1> QED
  BY <1>1, Inductive, PTL

\* A peer whose session is open talks to a kernel that remembers it, or the
\* end of the session is among the effects, however accepts, refusals, closed
\* servers, timeouts and disconnects cross on the two queues.
THEOREM OpenSessionsKnown ==
    Spec => [](restarts = 0 /\ births < WidMod => OpenIsKnown)
<1>1. IInv => (restarts = 0 /\ births < WidMod => OpenIsKnown)
  <2> SUFFICES ASSUME IInv, restarts = 0, births < WidMod, Running,
                      NEW c \in Reqs, web[c].sat = "open", conn[c] = "none"
               PROVE  Leaving(c)
    BY DEF OpenIsKnown
  <2>1. Given("reject", c) \/ Given("disconnect", c)
    BY DEF IInv, SessionOK, Known, Running
  <2> QED
    BY <2>1 DEF Given, In, Leaving
<1> QED
  BY <1>1, Inductive, PTL

\* A frame is poked into the agent only for a handshake it has accepted and not
\* ended (+ws-event looks at the connection alone).
THEOREM PokesAreAccepted ==
    Spec => [](restarts = 0 /\ births < WidMod => PokesAccepted)
<1>1. IInv => (restarts = 0 /\ births < WidMod => PokesAccepted)
  <2> SUFFICES ASSUME IInv, restarts = 0, births < WidMod, ova # <<>>,
                      Head(ova).tag = "message", conn[Head(ova).req] # "none"
               PROVE  app[Head(ova).wid] = "accepted"
    BY DEF PokesAccepted
  <2> DEFINE o == Head(ova)
  <2>1. o \in In(ova) /\ o \in DP!Ovum \cup {Born}
    BY InTail DEF IInv, TypesOK
  <2> HIDE DEF o
  <2>2. o.tag = "message" /\ conn[o.req] # "none"
    BY DEF o
  <2>3. o.req \in Reqs
    BY <2>1, <2>2, OvumFields DEF Born
  <2>4. Started(web[o.req]) /\ web[o.req].wid = o.wid
    BY <2>1, <2>2 DEF IInv, Routed, Owns, SessionTags
  <2>5. Accepted(o.req)
    BY <2>1, <2>2 DEF Accepted, Queued
  <2>6. Remembered(o.req) /\ Answered(o.req)
    BY <2>3 DEF IInv, SessionOK
  <2>7. app[o.wid] = "accepted"
    BY <2>2, <2>4, <2>5, <2>6 DEF Remembered, Answered
  <2> QED
    BY <2>7 DEF o
<1> QED
  BY <1>1, Inductive, PTL

\* However often the runtime restarts: once eyre has taken %born, every
\* connection it remembers was asked for by the process that runs now.
THEOREM ConnectionsCurrent == Spec => []KnownIsCurrent
<1>1. IInv => KnownIsCurrent
  BY DEF IInv
<1> QED
  BY <1>1, Inductive, PTL

=============================================================================
