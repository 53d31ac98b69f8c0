------------------------------ MODULE WsServer ------------------------------
(***************************************************************************)
(* The serving side end to end: the runtime's HTTP driver (HttpDriver) and *)
(* the kernel's HTTP vane with the agent behind it (Eyre), joined by the   *)
(* two queues between the processes.  Events go through u3_auto_plan() in  *)
(* order, effects are released in the order of the events that caused      *)
(* them.  A runtime process may die and be started again: what it held, and*)
(* what was in its queues, is gone, and the first event of the new process *)
(* is %born (u3_http_io talk, _http_io_talk()).                            *)
(***************************************************************************)
EXTENDS Naturals, Sequences, FiniteSets

CONSTANTS
    PlainReqs,   \* requests that are not websocket handshakes
    WsReqs,      \* requests with a handshake
    WidMod,      \* modulus of the websocket id counter
    MaxQueue,    \* bound of the checks: length of a queue that chatter may fill
    MaxOva,      \* bound of the checks: events the kernel may be behind
    Restarts,    \* bound of the checks: how often the runtime restarts
    Rules        \* bound of the checks: how often the configuration changes

Reqs == PlainReqs \cup WsReqs

ASSUME KindAssumption == PlainReqs \cap WsReqs = {}

ASSUME WidModAssumption == WidMod \in Nat /\ WidMod > 1

VARIABLES
    req, web, h2o, wid_l, births, serv, out, told, fault,   \* HttpDriver
    conn, sockets, sub, app, eff,                       \* Eyre
    ova,        \* events planned by the runtime, oldest first
    restarts,   \* how often the runtime was restarted
    rules       \* how often the configuration was changed

driverVars == <<req, web, h2o, wid_l, births, serv, out, told, fault>>
eyreVars == <<conn, sockets, sub, app, eff>>
vars == <<driverVars, eyreVars, ova, restarts, rules>>

Driver == INSTANCE HttpDriver
Eyre == INSTANCE Eyre

Init ==
    /\ Driver!Init
    /\ Eyre!EyreInit
    /\ ova = <<[tag |-> "born"]>>
    /\ restarts = 0
    /\ rules = 0

-----------------------------------------------------------------------------
(* The runtime. *)

\* u3_auto_plan(): what the driver's step planned joins the queue.
Enqueue ==
    /\ Len(ova) < MaxOva
    /\ ova' = IF out' = {} THEN ova ELSE Append(ova, CHOOSE o \in out' : TRUE)

\* A request arrives.
Arrive(c) ==
    /\ \/ c \in PlainReqs /\ Driver!http_req_dispatch(c)
       \/ c \in WsReqs /\ (Driver!http_ws_handshake(c)
                           \/ Driver!http_bad_handshake(c))
    /\ Enqueue
    /\ UNCHANGED <<eyreVars, restarts, rules>>

\* A timer or an h2o callback; peers send no frame into a full queue.
Callback(c) ==
    /\ \/ Driver!http_req_timer_cb(c)
       \/ Driver!http_hgen_proceed(c)
       \/ Driver!http_req_done(c)
       \/ \E ok \in BOOLEAN : Driver!h2o_upgrade_complete(c, ok)
       \/ Driver!http_ws_close_frame(c)
       \/ Driver!http_ws_dropped(c)
       \/ Len(ova) < MaxQueue /\ Driver!http_ws_message(c)
    /\ Enqueue
    /\ UNCHANGED <<eyreVars, restarts, rules>>

\* The servers are closed: the new configuration is applied.
Reconfigure ==
    /\ Driver!http_serv_close_cb
    /\ UNCHANGED <<eyreVars, ova, restarts, rules>>

\* The oldest effect is released to the driver.
Release ==
    /\ eff # <<>>
    /\ Driver!http_ef_http_server(Head(eff))
    /\ eff' = Tail(eff)
    /\ Enqueue
    /\ UNCHANGED <<conn, sockets, sub, app, restarts, rules>>

\* The process dies, on its own fault or from outside, and is started again.
Restart ==
    /\ restarts < Restarts
    /\ restarts' = restarts + 1
    /\ req' = [c \in Reqs |-> IF req[c].st = "free" THEN req[c]
                              ELSE [Driver!NoReq EXCEPT !.st = "done"]]
    /\ web' = [c \in Reqs |-> Driver!NoWeb]
    /\ h2o' = [c \in Reqs |-> IF req[c].st = "free" THEN "idle" ELSE "final"]
    /\ wid_l' = 0
    /\ births' = 0
    /\ serv' = "none"
    /\ out' = {}
    /\ told' = [c \in Reqs |-> {}]
    /\ fault' = "none"
    /\ ova' = <<[tag |-> "born"]>>
    /\ eff' = <<>>
    /\ UNCHANGED <<conn, sockets, sub, app, rules>>

-----------------------------------------------------------------------------
(* The kernel. *)

\* Eyre takes the oldest event (+call).
Compute ==
    LET o == Head(ova) IN
    /\ ova # <<>>
    /\ \/ o.tag = "request" /\ Eyre!request(o.req)
       \/ o.tag = "cancel-request" /\ Eyre!cancel_request(o.req)
       \/ o.tag = "websocket-handshake" /\ Eyre!ws_handshake(o.req, o.wid)
       \/ o.tag \in {"message", "disconnect"}
            /\ Eyre!ws_event(o.req, o.wid, o.tag)
       \/ o.tag = "born" /\ Eyre!born
    /\ ova' = Tail(ova)
    /\ out' = {}
    /\ UNCHANGED <<req, web, h2o, wid_l, births, serv, told, fault,
                   restarts, rules>>

\* The agent acts of its own accord.
Agent ==
    /\ Len(eff) < MaxQueue
    /\ \/ \E w \in Eyre!Wids : Eyre!AppActions(w)
       \/ \E c \in PlainReqs : Eyre!AppResponds(c)
    /\ out' = {}
    /\ UNCHANGED <<req, web, h2o, wid_l, births, serv, told, fault,
                   ova, restarts,
                   rules>>

\* The configuration is changed (%rule).
Configure ==
    /\ rules < Rules
    /\ rules' = rules + 1
    /\ Eyre!rule
    /\ out' = {}
    /\ UNCHANGED <<req, web, h2o, wid_l, births, serv, told, fault,
                   ova, restarts>>

-----------------------------------------------------------------------------

Running == fault = "none"

Next ==
    \/ /\ Running
       /\ \/ \E c \in Reqs : Arrive(c) \/ Callback(c)
          \/ Reconfigure
          \/ Release
          \/ Compute
          \/ Agent
          \/ Configure
    \/ Restart

\* h2o finishes what it was given: an answered request is disposed of and an
\* upgrade ends one way or the other.
Finish(c) ==
    /\ Running
    /\ h2o[c] \in {"final", "upgrade"}
    /\ Callback(c)
    /\ req'[c].st = "done"

Timeout(c) ==
    /\ Running
    /\ Driver!http_req_timer_cb(c)
    /\ Enqueue
    /\ UNCHANGED <<eyreVars, restarts, rules>>

\* Queues are served, timers expire, answered requests end.  Neither peers nor
\* agents owe anything.
Fairness ==
    /\ WF_vars(Running /\ Release)
    /\ WF_vars(Running /\ Compute)
    /\ \A c \in Reqs : WF_vars(Finish(c)) /\ WF_vars(Timeout(c))

Spec == Init /\ [][Next]_vars

FairSpec == Spec /\ Fairness

-----------------------------------------------------------------------------
(* Properties. *)

\* A %websocket-response acts on the session of the duct eyre gave it on, even
\* though _http_ef_http_server() looks the session up by its id alone.
RoutedToOwner ==
    \A i \in DOMAIN eff : eff[i].tag \in Driver!WsResponses =>
       \A c \in Reqs : Driver!Found(c, eff[i].wid) => c = eff[i].req

Leaving(c) == \E i \in DOMAIN eff : /\ eff[i].tag \in {"reject", "disconnect"}
                                    /\ eff[i].req = c

\* An open session is one eyre still has a connection for, or its end is on
\* the way: no peer talks to a kernel that has forgotten it.
OpenIsKnown ==
    Running => \A c \in Reqs : web[c].sat = "open"
                                 => conn[c] # "none" \/ Leaving(c)

\* +ws-event pokes a frame into the agent only for a handshake the agent
\* accepted and has not ended.
PokesAccepted ==
    ova # <<>> /\ Head(ova).tag = "message" /\ conn[Head(ova).req] # "none"
      => app[Head(ova).wid] = "accepted"

\* What the driver reports of the end of a request or of a session, eyre acts
\* on: the connection goes.
ReportedEndsForget ==
    \A c \in Reqs :
      told[c] \cap {"cancel-request", "disconnect"} # {}
        ~> conn[c] = "none" \/ ~Running

\* A plain request that is over, answered or not, leaves no connection.
PlainEndsForget ==
    \A c \in PlainReqs :
      req[c].st = "done" ~> conn[c] = "none" \/ ~Running

\* %born cancels every connection of the old process: once eyre has taken it,
\* what it remembers was asked for by the process that runs now.
KnownIsCurrent ==
    (\A i \in DOMAIN ova : ova[i].tag # "born")
      => \A c \in Reqs : conn[c] # "none"
                            => told[c] \cap {"request", "websocket-handshake"} # {}

\* A handshake is settled: by the agent, by the peer, or by the 600 second
\* timer and the disposal of the request.
HandshakeSettled ==
    \A c \in WsReqs :
      web[c].sat = "pending" ~> web[c].sat # "pending" \/ ~Running

-----------------------------------------------------------------------------
(* What the repository says and the code does not keep, refuted by a run.    *)

\* _http_ws_accept() leaves h2o_websocket_proceed() to h2o because it would
\* dereference a null sock before the upgrade is finalized; no other handler
\* calls it that early either.
ProceedAfterUpgrade == fault # "null socket"

=============================================================================
