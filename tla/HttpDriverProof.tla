-------------------------- MODULE HttpDriverProof ---------------------------
(***************************************************************************)
(* Theorems of HttpDriver for every set of requests and every modulus:     *)
(* what holds of it, that it implements WsSession, and that what libh2o is *)
(* told is final stays so.                                                 *)
(***************************************************************************)
EXTENDS HttpDriver, TLAPS

\* What holds of one request, its response and its session between handlers.
RequestOK(r, w, h) ==
    /\ r.st = "free" => /\ ~r.wsu /\ ~r.red
                        /\ h = "idle" /\ w.sat = "none"
    /\ r.st = "plan" => h = "idle" /\ ~r.red
    /\ r.st \in Rsat /\ h = "body" => r.gen # "none"
    /\ r.st \in Rsat /\ r.red => h = "body"

\* What holds of one session: it still waits for its upgrade, or its request
\* is gone and frames are read only while it is open.
SessionOK(r, w, t) ==
    /\ r.wsu => r.st \in Rsat /\ w.sat \in Live
    /\ w.req => w.sat = "pending"
    /\ w.sat = "pending" => r.st \in Rsat /\ r.wsu /\ w.req
    /\ w.sat \in {"none", "pending"} => w.woc = "none"
    /\ w.woc \in {"wait", "up"} => w.sat = "open"
    /\ w.woc = "shut" => w.sat = "closed"
    /\ w.woc \in {"up", "shut"} => ~r.wsu
    /\ w.sat = "closed" => w.woc = "shut"
    /\ w.sat = "open" => w.woc \in {"wait", "up"}
    /\ w.sat = "closed" => "disconnect" \in t
    /\ w.sat = "freed" /\ w.woc = "gone" => "disconnect" \in t

PairInv == \A c \in Reqs : /\ RequestOK(req[c], web[c], h2o[c])
                           /\ SessionOK(req[c], web[c], told[c])

\* Until the counter comes round, ids are the handshakes in order.
CounterInv ==
    /\ births > 0 /\ births + 1 < WidMod => wid_l = births + 1
    /\ births = 0 => wid_l = 0
    /\ \A c \in Reqs : web[c].sat # "none" =>
          /\ web[c].birth < births
          /\ births < WidMod => web[c].wid = web[c].birth + 1
    /\ \A c, d \in Reqs : web[c].sat # "none" /\ web[d].sat # "none"
                            /\ web[c].birth = web[d].birth => c = d

\* What eyre was told of a request agrees with what has become of it: a
\* cancelled request has no session that is open or could still be opened.
ReportOK(r, w, h, t) ==
    /\ r.st = "free" => t = {}
    /\ r.st = "plan" => r.gen = "none"
    /\ r.st = "ripe" => h # "idle"
    /\ r.st \in Rsat /\ h = "upgrade" => r.gen = "none"
    /\ r.st \in Rsat /\ w.sat = "open" => h = "upgrade"
    /\ "cancel-request" \in t => /\ w.sat # "open"
                                 /\ w.sat = "pending" => h # "idle"
    /\ "disconnect" \in t => w.sat \in {"closed", "freed"}

ReportInv ==
    fault = "none" => \A c \in Reqs : ReportOK(req[c], web[c], h2o[c], told[c])

IInv == /\ TypeOK
        /\ PairInv
        /\ CounterInv
        /\ ReportInv

-----------------------------------------------------------------------------
(* Typing. *)

LEMMA ModuloRange ==
    ASSUME NEW n \in Nat
    PROVE  n % WidMod \in 0 .. (WidMod - 1)
BY WidModAssumption

LEMMA PlanType ==
    ASSUME TypeOK, NEW c \in Reqs, NEW tag \in Tags, NEW wid \in 0 .. (WidMod - 1),
           Plan(tag, c, wid)
    PROVE  out' \in SUBSET Ovum /\ told' \in [Reqs -> SUBSET Tags]
<1>1. [tag |-> tag, req |-> c, wid |-> wid] \in Ovum
  BY DEF Ovum
<1>2. told' \in [Reqs -> SUBSET Tags]
  BY DEF TypeOK, Plan
<1> QED
  BY <1>1, <1>2 DEF Plan

LEMMA PlanNothingType ==
    ASSUME TypeOK, PlanNothing
    PROVE  out' \in SUBSET Ovum /\ told' \in [Reqs -> SUBSET Tags]
BY DEF TypeOK, PlanNothing

LEMMA KillType ==
    ASSUME TypeOK, NEW c \in Reqs, NEW b, KillIf(b, c)
    PROVE  out' \in SUBSET Ovum /\ told' \in [Reqs -> SUBSET Tags]
BY PlanType, PlanNothingType, WidModAssumption DEF KillIf, Kill, Tags

LEMMA AnswerType ==
    ASSUME TypeOK, NEW c \in Reqs, NEW how \in H2o, Answer(c, how)
    PROVE  h2o' \in [Reqs -> H2o] /\ fault' \in Faults
BY DEF TypeOK, Answer, Faults

LEMMA SentType ==
    ASSUME NEW r \in HReq
    PROVE  Sent(r) \in HReq /\ SendState(r) \in H2o
BY DEF Sent, SendState, HReq, H2o

LEMMA FreedType ==
    ASSUME NEW w \in HWs
    PROVE  Freed(w) \in HWs
BY DEF Freed, HWs

LEMMA DispatchType ==
    ASSUME TypeOK, NEW c \in Reqs, http_req_dispatch(c) PROVE TypeOK'
<1>1. Prepared \in HReq
  BY DEF Prepared, NoReq, HReq
<1>2. out' \in SUBSET Ovum /\ told' \in [Reqs -> SUBSET Tags]
  BY PlanType, WidModAssumption DEF http_req_dispatch, Tags
<1> QED
  BY <1>1, <1>2 DEF TypeOK, http_req_dispatch

LEMMA HandshakeType ==
    ASSUME TypeOK, NEW c \in Reqs, http_ws_handshake(c) PROVE TypeOK'
<1> DEFINE wid == IF wid_l = 0 THEN 1 ELSE wid_l
<1>1. wid \in 0 .. (WidMod - 1)
  BY WidModAssumption DEF TypeOK
<1>2. [Prepared EXCEPT !.wsu = TRUE] \in HReq
  BY DEF Prepared, NoReq, HReq
<1>3. [sat |-> "pending", wid |-> wid, req |-> TRUE, woc |-> "none",
       birth |-> births] \in HWs
  BY <1>1 DEF TypeOK, HWs, Live
<1>4. out' \in SUBSET Ovum /\ told' \in [Reqs -> SUBSET Tags]
  BY <1>1, PlanType DEF http_ws_handshake, Tags
<1>5. (wid + 1) % WidMod \in 0 .. (WidMod - 1)
  BY <1>1, ModuloRange
<1>6. req' \in [Reqs -> HReq]
  BY <1>2 DEF TypeOK, http_ws_handshake
<1>7. web' \in [Reqs -> HWs]
  BY <1>3 DEF TypeOK, http_ws_handshake
<1>8. wid_l' \in 0 .. (WidMod - 1) /\ births' \in Nat
  BY <1>5 DEF TypeOK, http_ws_handshake
<1> QED
  BY <1>4, <1>6, <1>7, <1>8 DEF TypeOK, http_ws_handshake

\* A generator that fails: what it sends is final.
FailedGen(c) == [req[c] EXCEPT !.gen = "fail", !.tim = FALSE]

LEMMA FailedGenFields ==
    ASSUME TypeOK, NEW c \in Reqs
    PROVE  /\ FailedGen(c) \in HReq /\ FailedGen(c).gen = "fail"
           /\ FailedGen(c).red = req[c].red /\ FailedGen(c).st = req[c].st
           /\ FailedGen(c).wsu = req[c].wsu
           /\ SendState(FailedGen(c)) = "final"
<1>1. req[c] \in HReq
  BY DEF TypeOK
<1>2. /\ FailedGen(c) \in HReq /\ FailedGen(c).gen = "fail"
      /\ FailedGen(c).red = req[c].red /\ FailedGen(c).st = req[c].st
      /\ FailedGen(c).wsu = req[c].wsu
  BY <1>1 DEF FailedGen, HReq
<1> QED
  BY <1>2 DEF SendState

LEMMA TimeoutRipeType ==
    ASSUME TypeOK, NEW c \in Reqs, http_timeout_ripe(c) PROVE TypeOK'
<1> DEFINE r == FailedGen(c)
<1>1. r \in HReq
  BY FailedGenFields
<1>2. Sent(r) \in HReq /\ SendState(r) \in H2o
  BY <1>1, SentType
<1>3. out' \in SUBSET Ovum /\ told' \in [Reqs -> SUBSET Tags]
  BY KillType, PlanNothingType DEF http_timeout_ripe
<1>4. CASE UNCHANGED <<req, h2o>>
  BY <1>3, <1>4 DEF TypeOK, http_timeout_ripe, Faults
<1>5. CASE /\ req' = [req EXCEPT ![c] = IF r.red THEN Sent(r) ELSE r]
           /\ h2o' = [h2o EXCEPT ![c] = IF r.red THEN SendState(r) ELSE h2o[c]]
  <2> HIDE DEF r
  <2>1. req' \in [Reqs -> HReq] /\ h2o' \in [Reqs -> H2o]
    BY <1>1, <1>2, <1>5 DEF TypeOK
  <2>2. fault' \in Faults /\ UNCHANGED <<web, wid_l, births, serv>>
    BY DEF TypeOK, http_timeout_ripe, Faults
  <2> QED
    BY <1>3, <2>1, <2>2 DEF TypeOK
<1> QED
  BY <1>4, <1>5 DEF http_timeout_ripe, FailedGen

LEMMA EffectFields ==
    ASSUME NEW e \in Effects
    PROVE  /\ e.tag \in Responses => /\ e.req \in Reqs
                                     /\ e.complete \in BOOLEAN
                                     /\ e.data \in BOOLEAN
           /\ e.tag \in WsResponses => e.wid \in Wids
BY DEF Effects, Responses, WsResponses

LEMMA ProceedType ==
    ASSUME TypeOK, NEW c \in Reqs, http_hgen_proceed(c) PROVE TypeOK'
<1> DEFINE r == [req[c] EXCEPT !.red = TRUE]
<1>1. r \in HReq
  BY DEF TypeOK, HReq
<1>2. Sent(r) \in HReq /\ SendState(r) \in H2o
  BY <1>1, SentType
<1>3. out' \in SUBSET Ovum /\ told' \in [Reqs -> SUBSET Tags]
  BY PlanNothingType DEF http_hgen_proceed
<1> QED
  BY <1>1, <1>2, <1>3 DEF TypeOK, http_hgen_proceed

LEMMA DetachedType ==
    ASSUME TypeOK, NEW c \in Reqs PROVE Detached(c) \in HWs
BY FreedType DEF TypeOK, Detached

LEMMA DoneType ==
    ASSUME TypeOK, NEW c \in Reqs, http_req_done(c) PROVE TypeOK'
<1>1. out' \in SUBSET Ovum /\ told' \in [Reqs -> SUBSET Tags]
  BY KillType DEF http_req_done
<1>2. [req[c] EXCEPT !.st = "done", !.wsu = FALSE, !.tim = FALSE] \in HReq
  BY DEF TypeOK, HReq
<1>3. req' = [req EXCEPT ![c] =
                [req[c] EXCEPT !.st = "done", !.wsu = FALSE, !.tim = FALSE]]
  BY DEF http_req_done, TypeOK
<1>4. req' \in [Reqs -> HReq]
  BY <1>2, <1>3 DEF TypeOK
<1>5. web' \in [Reqs -> HWs]
  BY DetachedType DEF TypeOK, http_req_done
<1>6. UNCHANGED <<h2o, wid_l, births, serv, fault>>
  BY DEF http_req_done
<1> QED
  BY <1>1, <1>4, <1>5, <1>6 DEF TypeOK

LEMMA BadHandshakeType ==
    ASSUME TypeOK, NEW c \in Reqs, http_bad_handshake(c) PROVE TypeOK'
<1>1. [NoReq EXCEPT !.st = "ripe"] \in HReq
  BY DEF NoReq, HReq
<1> QED
  BY <1>1, PlanNothingType DEF TypeOK, http_bad_handshake, H2o

LEMMA TimeoutPlannedType ==
    ASSUME TypeOK, NEW c \in Reqs, http_timeout_planned(c) PROVE TypeOK'
<1>1. out' \in SUBSET Ovum /\ told' \in [Reqs -> SUBSET Tags]
  BY PlanType, WidModAssumption DEF http_timeout_planned, Kill, Tags
<1>2. h2o' \in [Reqs -> H2o] /\ fault' \in Faults
  BY AnswerType DEF http_timeout_planned, H2o
<1>3. [req[c] EXCEPT !.st = "ripe", !.tim = FALSE] \in HReq
  BY DEF TypeOK, HReq
<1>4. req' = [req EXCEPT ![c] = [req[c] EXCEPT !.st = "ripe", !.tim = FALSE]]
  BY DEF http_timeout_planned, TypeOK
<1> QED
  BY <1>1, <1>2, <1>3, <1>4 DEF TypeOK, http_timeout_planned

LEMMA DroppedType ==
    ASSUME TypeOK, NEW c \in Reqs, Dropped(c)
    PROVE  /\ web' \in [Reqs -> HWs]
           /\ out' \in SUBSET Ovum /\ told' \in [Reqs -> SUBSET Tags]
<1>1. out' \in SUBSET Ovum /\ told' \in [Reqs -> SUBSET Tags]
  BY PlanType, PlanNothingType DEF Dropped, TypeOK, HWs, Tags
<1>2. [Freed(web[c]) EXCEPT !.woc = "gone"] \in HWs
  BY DEF TypeOK, Freed, HWs
<1> QED
  BY <1>1, <1>2 DEF Dropped, TypeOK

LEMMA UpgradeType ==
    ASSUME TypeOK, NEW c \in Reqs, NEW ok \in BOOLEAN,
           h2o_upgrade_complete(c, ok)
    PROVE  TypeOK'
<1>1. out' \in SUBSET Ovum /\ told' \in [Reqs -> SUBSET Tags]
  BY DroppedType, PlanNothingType DEF h2o_upgrade_complete
<1>2. [web[c] EXCEPT !.woc = "up"] \in HWs
  BY DEF TypeOK, HWs
<1>3. web' \in [Reqs -> HWs]
  BY <1>2, DroppedType DEF h2o_upgrade_complete, TypeOK
<1>4. [req[c] EXCEPT !.st = "done", !.wsu = FALSE, !.tim = FALSE] \in HReq
  BY DEF TypeOK, HReq
<1>5. req' = [req EXCEPT ![c] =
                [req[c] EXCEPT !.st = "done", !.wsu = FALSE, !.tim = FALSE]]
  BY DEF h2o_upgrade_complete, TypeOK
<1>6. fault' \in Faults
  BY DEF h2o_upgrade_complete, TypeOK, Faults
<1>7. req' \in [Reqs -> HReq]
  BY <1>4, <1>5 DEF TypeOK
<1>8. h2o' \in [Reqs -> H2o]
  BY DEF TypeOK, h2o_upgrade_complete, H2o
<1>9. UNCHANGED <<wid_l, births, serv>>
  BY DEF h2o_upgrade_complete, Dropped
<1> QED
  BY <1>1, <1>3, <1>6, <1>7, <1>8, <1>9 DEF TypeOK

LEMMA FrameType ==
    ASSUME TypeOK, NEW c \in Reqs,
           http_ws_message(c) \/ http_ws_close_frame(c) \/ http_ws_dropped(c)
    PROVE  TypeOK'
<1>1. CASE http_ws_message(c)
  <2>1. out' \in SUBSET Ovum /\ told' \in [Reqs -> SUBSET Tags]
    BY <1>1, PlanType DEF http_ws_message, TypeOK, HWs, Tags
  <2> QED
    BY <1>1, <2>1 DEF http_ws_message, TypeOK
<1>2. CASE http_ws_close_frame(c)
  <2>1. out' \in SUBSET Ovum /\ told' \in [Reqs -> SUBSET Tags]
    BY <1>2, PlanType, PlanNothingType
    DEF http_ws_close_frame, TypeOK, HWs, Tags
  <2>2. [web[c] EXCEPT !.sat = "closed", !.woc = "shut"] \in HWs
    BY DEF TypeOK, HWs, Live
  <2>3. web' = [web EXCEPT ![c] =
                  [web[c] EXCEPT !.sat = "closed", !.woc = "shut"]]
    BY <1>2 DEF http_ws_close_frame, TypeOK
  <2> QED
    BY <1>2, <2>1, <2>2, <2>3 DEF http_ws_close_frame, TypeOK
<1>3. CASE http_ws_dropped(c)
  BY <1>3, DroppedType DEF http_ws_dropped, TypeOK
<1> QED
  BY <1>1, <1>2, <1>3

LEMMA StartType ==
    ASSUME TypeOK, NEW c \in Reqs, NEW complete \in BOOLEAN,
           http_start_respond(c, complete)
    PROVE  req' \in [Reqs -> HReq] /\ web' \in [Reqs -> HWs]
           /\ h2o' \in [Reqs -> H2o] /\ fault' \in Faults
<1> DEFINE r == [req[c] EXCEPT !.st = "ripe", !.tim = FALSE, !.bod = FALSE,
                               !.gen = IF complete THEN "done" ELSE "wait"]
<1>1. r \in HReq
  BY DEF TypeOK, HReq
<1>2. Sent(r) \in HReq /\ SendState(r) \in H2o
  BY <1>1, SentType
<1> QED
  BY <1>2 DEF TypeOK, http_start_respond

LEMMA ContinueType ==
    ASSUME TypeOK, NEW c \in Reqs, NEW complete \in BOOLEAN,
           NEW data \in BOOLEAN, http_continue_respond(c, data, complete)
    PROVE  req' \in [Reqs -> HReq] /\ web' \in [Reqs -> HWs]
           /\ h2o' \in [Reqs -> H2o] /\ fault' \in Faults
<1> DEFINE r == [req[c] EXCEPT !.tim = FALSE, !.bod = @ \/ data,
                               !.gen = IF complete THEN "done" ELSE "wait"]
<1>1. r \in HReq
  BY DEF TypeOK, HReq
<1>2. Sent(r) \in HReq /\ SendState(r) \in H2o
  BY <1>1, SentType
<1> HIDE DEF r
<1>3. \/ UNCHANGED <<req, web, h2o>> /\ fault' = "null generator"
      \/ /\ \/ req' = [req EXCEPT ![c] = r] /\ UNCHANGED h2o
            \/ /\ req' = [req EXCEPT ![c] = Sent(r)]
               /\ h2o' = [h2o EXCEPT ![c] = SendState(r)]
         /\ UNCHANGED <<web, fault>>
  <2>1. CASE req[c].gen = "none"
    BY <2>1 DEF http_continue_respond
  <2>2. CASE req[c].gen # "none" /\ r.red
    BY <2>2, Zenon DEF http_continue_respond, r
  <2>3. CASE req[c].gen # "none" /\ ~r.red
    <3>1. req' = [req EXCEPT ![c] = r] /\ UNCHANGED <<web, fault>>
      BY <2>3, Zenon DEF http_continue_respond, r
    <3>2. h2o' = [h2o EXCEPT ![c] = h2o[c]]
      BY <2>3, Zenon DEF http_continue_respond, r
    <3> QED
      BY <3>1, <3>2 DEF TypeOK
  <2> QED
    BY <2>1, <2>2, <2>3
<1> QED
  BY <1>1, <1>2, <1>3 DEF TypeOK, Faults

LEMMA CancelType ==
    ASSUME TypeOK, NEW c \in Reqs, http_cancel_respond(c)
    PROVE  req' \in [Reqs -> HReq] /\ web' \in [Reqs -> HWs]
           /\ h2o' \in [Reqs -> H2o] /\ fault' \in Faults
<1> DEFINE r == [req[c] EXCEPT !.gen = "fail", !.tim = FALSE]
<1>1. r \in HReq
  BY DEF TypeOK, HReq
<1>2. Sent(r) \in HReq /\ SendState(r) \in H2o
  BY <1>1, SentType
<1>3. CASE req[c].st = "plan"
  <2>1. [req[c] EXCEPT !.st = "ripe", !.wsu = FALSE] \in HReq
    BY DEF TypeOK, HReq
  <2>2. req' = [req EXCEPT ![c] = [req[c] EXCEPT !.st = "ripe", !.wsu = FALSE]]
    BY <1>3 DEF TypeOK, http_cancel_respond
  <2>3. h2o' \in [Reqs -> H2o] /\ fault' \in Faults
    BY <1>3, AnswerType DEF http_cancel_respond, H2o
  <2>4. web' \in [Reqs -> HWs]
    BY <1>3, DetachedType DEF http_cancel_respond, TypeOK
  <2> QED
    BY <2>1, <2>2, <2>3, <2>4 DEF TypeOK
<1>4. CASE req[c].st # "plan"
  BY <1>1, <1>2, <1>4 DEF TypeOK, http_cancel_respond, Faults
<1> QED
  BY <1>3, <1>4

LEMMA AcceptType ==
    ASSUME TypeOK, NEW c \in Reqs, http_ws_accept(c)
    PROVE  req' \in [Reqs -> HReq] /\ web' \in [Reqs -> HWs]
           /\ h2o' \in [Reqs -> H2o] /\ fault' \in Faults
<1>1. [req[c] EXCEPT !.st = "ripe", !.tim = FALSE] \in HReq
  BY DEF TypeOK, HReq
<1>2. [req[c] EXCEPT !.st = "ripe", !.tim = FALSE, !.wsu = FALSE] \in HReq
  BY DEF TypeOK, HReq
<1>3. [web[c] EXCEPT !.sat = "open", !.req = FALSE, !.woc = "wait"] \in HWs
  BY DEF TypeOK, HWs, Live
<1>4. h2o' \in [Reqs -> H2o] /\ fault' \in Faults
  BY AnswerType DEF http_ws_accept, H2o
<1>5. req' \in [Reqs -> HReq]
  <2>1. \/ req' = [req EXCEPT ![c] = [req[c] EXCEPT !.st = "ripe", !.tim = FALSE]]
        \/ req' = [req EXCEPT ![c] = [req[c] EXCEPT !.st = "ripe", !.tim = FALSE,
                                                    !.wsu = FALSE]]
    BY DEF http_ws_accept, TypeOK
  <2> QED
    BY <1>1, <1>2, <2>1 DEF TypeOK
<1>6. web' \in [Reqs -> HWs]
  <2>1. \/ web' = [web EXCEPT ![c] = [web[c] EXCEPT !.sat = "open", !.req = FALSE,
                                                    !.woc = "wait"]]
        \/ web' = [web EXCEPT ![c] = Freed(web[c])]
    BY DEF http_ws_accept, TypeOK
  <2> QED
    BY <1>3, <2>1, FreedType DEF TypeOK
<1> QED
  BY <1>4, <1>5, <1>6

LEMMA RejectedType ==
    ASSUME NEW r \in HReq PROVE Rejected(r) \in HReq
BY DEF Rejected, HReq

LEMMA ClosingType ==
    ASSUME NEW w \in HWs PROVE Closing(w) \in HWs
BY DEF Closing, HWs, Live

LEMMA DisconnectType ==
    ASSUME TypeOK, NEW c \in Reqs, http_ws_disconnect(c)
    PROVE  req' \in [Reqs -> HReq] /\ web' \in [Reqs -> HWs]
           /\ h2o' \in [Reqs -> H2o] /\ fault' \in Faults
<1>1. CASE http_ws_reject(c)
  <2>1. h2o' \in [Reqs -> H2o] /\ fault' \in Faults
    BY <1>1, AnswerType DEF http_ws_reject, H2o
  <2> QED
    BY <1>1, <2>1, RejectedType, FreedType DEF http_ws_reject, TypeOK
<1>2. CASE ~http_ws_reject(c)
  BY <1>2, ClosingType DEF http_ws_disconnect, TypeOK
<1> QED
  BY <1>1, <1>2

LEMMA SendMessageType ==
    ASSUME TypeOK, NEW c \in Reqs, http_ws_send_message(c)
    PROVE  /\ req' \in [Reqs -> HReq] /\ web' \in [Reqs -> HWs]
           /\ h2o' \in [Reqs -> H2o] /\ fault' \in Faults
           /\ out' \in SUBSET Ovum /\ told' \in [Reqs -> SUBSET Tags]
<1>1. out' \in SUBSET Ovum /\ told' \in [Reqs -> SUBSET Tags]
  BY DroppedType, PlanNothingType DEF http_ws_send_message
<1>2. web' \in [Reqs -> HWs]
  BY DroppedType DEF http_ws_send_message, TypeOK
<1> QED
  BY <1>1, <1>2 DEF http_ws_send_message, TypeOK, Faults

LEMMA CloseAllType ==
    ASSUME TypeOK, http_ws_close_all
    PROVE  req' \in [Reqs -> HReq] /\ web' \in [Reqs -> HWs]
           /\ h2o' \in [Reqs -> H2o] /\ fault' \in Faults
<1>1. \A c \in Reqs : /\ Rejected(req[c]) \in HReq
                      /\ Freed(web[c]) \in HWs
                      /\ Closing(web[c]) \in HWs
  BY RejectedType, FreedType, ClosingType DEF TypeOK
<1>2. req' \in [Reqs -> HReq] /\ web' \in [Reqs -> HWs]
  BY <1>1 DEF http_ws_close_all, TypeOK
<1>3. h2o' \in [Reqs -> H2o] /\ fault' \in Faults
  BY DEF http_ws_close_all, TypeOK, H2o, Faults
<1> QED
  BY <1>2, <1>3

LEMMA EffectType ==
    ASSUME TypeOK, NEW e \in Effects, http_ef_http_server(e) PROVE TypeOK'
<1>1. wid_l' = wid_l /\ births' = births /\ serv' \in Servs
  BY DEF http_ef_http_server, http_ef_form, http_serv_start_all, TypeOK, Servs
<1>2. CASE http_ws_response(e)
  <2>1. PICK c \in Reqs :
           \/ http_ws_accept(c) /\ PlanNothing
           \/ http_ws_disconnect(c) /\ PlanNothing
           \/ http_ws_send_message(c)
    BY <1>2 DEF http_ws_response, http_ws_disconnect
  <2> QED
    BY <1>1, <2>1, AcceptType, DisconnectType, SendMessageType,
       PlanNothingType DEF TypeOK
<1>3. CASE http_response(e)
  <2>1. e.tag \in Responses
    BY <1>3 DEF http_response, Responses
  <2>2. e.req \in Reqs /\ e.complete \in BOOLEAN /\ e.data \in BOOLEAN
    BY <2>1, EffectFields
  <2>3. out' \in SUBSET Ovum /\ told' \in [Reqs -> SUBSET Tags]
    BY <1>3, PlanNothingType DEF http_response
  <2>4. \/ http_start_respond(e.req, e.complete)
        \/ http_continue_respond(e.req, e.data, e.complete)
        \/ http_cancel_respond(e.req)
    BY <1>3 DEF http_response
  <2>5. req' \in [Reqs -> HReq] /\ web' \in [Reqs -> HWs]
        /\ h2o' \in [Reqs -> H2o] /\ fault' \in Faults
    BY <2>2, <2>4, StartType, ContinueType, CancelType
  <2> QED
    BY <1>1, <2>3, <2>5 DEF TypeOK
<1>4. CASE http_ws_close_all /\ PlanNothing
  BY <1>1, <1>4, CloseAllType, PlanNothingType DEF TypeOK
<1>5. CASE PlanNothing /\ UNCHANGED <<req, web, h2o>> /\ fault' \in Faults
  BY <1>1, <1>5, PlanNothingType DEF TypeOK
<1>6. UNCHANGED fault => fault' \in Faults
  BY DEF TypeOK
<1>7. http_ef_form => \/ http_ws_close_all
                      \/ UNCHANGED <<req, web, h2o>> /\ fault' \in Faults
  BY <1>6 DEF http_ef_form, http_serv_start_all, Faults
<1> QED
  BY <1>2, <1>3, <1>4, <1>5, <1>6, <1>7 DEF http_ef_http_server

LEMMA CloseCbType == ASSUME TypeOK, http_serv_close_cb PROVE TypeOK'
BY CloseAllType, PlanNothingType
DEF http_serv_close_cb, http_serv_start_all, TypeOK, Servs

LEMMA StutterType == ASSUME TypeOK, UNCHANGED vars PROVE TypeOK'
BY DEF TypeOK, vars

LEMMA NextType == ASSUME TypeOK, [Next]_vars PROVE TypeOK'
<1>1. CASE \E c \in Reqs : http_rec_accept(c)
  BY <1>1, DispatchType, BadHandshakeType, HandshakeType DEF http_rec_accept
<1>2. CASE \E c \in Reqs : Callback(c)
  BY <1>2, TimeoutPlannedType, TimeoutRipeType, ProceedType, DoneType,
     UpgradeType, FrameType DEF Callback, http_req_timer_cb
<1>3. CASE \E e \in Effects : http_ef_http_server(e)
  BY <1>3, EffectType
<1> QED
  BY <1>1, <1>2, <1>3, CloseCbType, StutterType DEF Next

\* Every variable keeps its type, whatever the kernel, the timers and libh2o
\* do, for any number of requests and any width of the id counter.
THEOREM TypeCorrect == Spec => []TypeOK
<1>1. Init => TypeOK
  <2>1. NoReq \in HReq /\ NoWeb \in HWs
    BY WidModAssumption DEF NoReq, NoWeb, HReq, HWs
  <2> QED
    BY <2>1, WidModAssumption DEF Init, TypeOK, H2o, Servs, Faults
<1>2. TypeOK /\ [Next]_vars => TypeOK'
  BY NextType
<1> QED
  BY <1>1, <1>2, PTL DEF Spec

-----------------------------------------------------------------------------
(* PairInv is inductive: one lemma for each handler.  The request or session *)
(* the handler works on is c; it leaves every other one alone.               *)

LEMMA Elsewhere ==
    ASSUME PairInv, NEW c \in Reqs,
           \A d \in Reqs \ {c} : /\ req'[d] = req[d] /\ web'[d] = web[d]
                                 /\ h2o'[d] = h2o[d] /\ told'[d] = told[d],
           RequestOK(req[c], web[c], h2o[c])',
           SessionOK(req[c], web[c], told[c])'
    PROVE  PairInv'
BY DEF PairInv

LEMMA DispatchPair ==
    ASSUME TypeOK, TypeOK', PairInv, NEW c \in Reqs, http_req_dispatch(c)
    PROVE  PairInv'
<1>1. ASSUME NEW d \in Reqs, d # c
      PROVE  /\ RequestOK(req[d], web[d], h2o[d])'
             /\ SessionOK(req[d], web[d], told[d])'
  BY <1>1 DEF TypeOK, PairInv, RequestOK, SessionOK, http_req_dispatch, Plan, Prepared,
         NoReq
<1>2. /\ RequestOK(req[c], web[c], h2o[c])'
      /\ SessionOK(req[c], web[c], told[c])'
  BY DEF TypeOK, PairInv, RequestOK, SessionOK, http_req_dispatch, Plan, Prepared,
         NoReq,
         HReq, HWs, Live, Alive, Rsat, Tags
<1> QED
  BY <1>1, <1>2 DEF PairInv

LEMMA BadHandshakePair ==
    ASSUME TypeOK, TypeOK', PairInv, NEW c \in Reqs, http_bad_handshake(c)
    PROVE  PairInv'
<1>1. ASSUME NEW d \in Reqs, d # c
      PROVE  /\ RequestOK(req[d], web[d], h2o[d])'
             /\ SessionOK(req[d], web[d], told[d])'
  BY <1>1 DEF TypeOK, PairInv, RequestOK, SessionOK, http_bad_handshake,
         PlanNothing, NoReq
<1>2. /\ RequestOK(req[c], web[c], h2o[c])'
      /\ SessionOK(req[c], web[c], told[c])'
  BY DEF TypeOK, PairInv, RequestOK, SessionOK, http_bad_handshake,
         PlanNothing, NoReq,
         HReq, HWs, Live, Alive, Rsat, Tags
<1> QED
  BY <1>1, <1>2 DEF PairInv

LEMMA HandshakePair ==
    ASSUME TypeOK, TypeOK', PairInv, NEW c \in Reqs, http_ws_handshake(c)
    PROVE  PairInv'
<1>1. ASSUME NEW d \in Reqs, d # c
      PROVE  /\ RequestOK(req[d], web[d], h2o[d])'
             /\ SessionOK(req[d], web[d], told[d])'
  BY <1>1 DEF TypeOK, PairInv, RequestOK, SessionOK, http_ws_handshake, Plan, Prepared,
         NoReq
<1>2. /\ RequestOK(req[c], web[c], h2o[c])'
      /\ SessionOK(req[c], web[c], told[c])'
  BY DEF TypeOK, PairInv, RequestOK, SessionOK, http_ws_handshake, Plan, Prepared,
         NoReq,
         HReq, HWs, Live, Alive, Rsat, Tags
<1> QED
  BY <1>1, <1>2 DEF PairInv

LEMMA TimeoutPlannedPair ==
    ASSUME TypeOK, PairInv, NEW c \in Reqs, http_timeout_planned(c)
    PROVE  PairInv'
<1>1. /\ req' = [req EXCEPT ![c] = [req[c] EXCEPT !.st = "ripe", !.tim = FALSE]]
      /\ told' = [told EXCEPT ![c] = told[c] \cup {"cancel-request"}]
      /\ web' = web
  BY DEF http_timeout_planned, Kill, Plan, TypeOK
<1>2. h2o' = [h2o EXCEPT ![c] = "final"]
  BY DEF http_timeout_planned, Answer, PairInv, RequestOK, TypeOK
<1>3. /\ RequestOK(req[c], web[c], h2o[c])'
      /\ SessionOK(req[c], web[c], told[c])'
  BY <1>1, <1>2 DEF TypeOK, PairInv, RequestOK, SessionOK, Rsat, HReq,
                    http_timeout_planned
<1> QED
  BY <1>1, <1>2, <1>3, Elsewhere DEF TypeOK

LEMMA TimeoutRipePair ==
    ASSUME TypeOK, PairInv, NEW c \in Reqs, http_timeout_ripe(c)
    PROVE  PairInv'
<1>1. CASE req[c].gen = "none"
  BY <1>1 DEF http_timeout_ripe, PlanNothing, PairInv
<1>2. CASE req[c].gen # "none"
  <2> DEFINE r == FailedGen(c)
  <2>1. /\ req' = [req EXCEPT ![c] = IF r.red THEN Sent(r) ELSE r]
        /\ h2o' = [h2o EXCEPT ![c] = IF r.red THEN "final" ELSE h2o[c]]
        /\ web' = web
    <3>1. /\ req' = [req EXCEPT ![c] = IF r.red THEN Sent(r) ELSE r]
          /\ h2o' = [h2o EXCEPT ![c] = IF r.red THEN SendState(r) ELSE h2o[c]]
          /\ web' = web
      BY <1>2 DEF http_timeout_ripe, FailedGen
    <3> QED
      BY <3>1, FailedGenFields
  <2>0. /\ r \in HReq /\ r.gen = "fail" /\ r.red = req[c].red
        /\ r.st = req[c].st /\ r.wsu = req[c].wsu
    BY FailedGenFields
  <2> HIDE DEF r
  <2>2. \/ told' = told
        \/ told' = [told EXCEPT ![c] = told[c] \cup {"cancel-request"}]
    BY <1>2 DEF http_timeout_ripe, KillIf, Kill, Plan, PlanNothing, TypeOK
  <2>3. /\ req'[c].st = req[c].st /\ req'[c].wsu = req[c].wsu
        /\ req'[c].gen = "fail"
        /\ req'[c].red => req[c].red /\ ~r.red
    BY <2>0, <2>1 DEF TypeOK, HReq, Sent
  <2>4. RequestOK(req[c], web[c], h2o[c])'
    BY <2>1, <2>3 DEF TypeOK, HReq, PairInv, RequestOK, Rsat, http_timeout_ripe
  <2>5. SessionOK(req[c], web[c], told[c])'
    BY <2>1, <2>2, <2>3 DEF TypeOK, PairInv, SessionOK
  <2> QED
    BY <2>1, <2>2, <2>4, <2>5, Elsewhere DEF TypeOK
<1> QED
  BY <1>1, <1>2

LEMMA ProceedPair ==
    ASSUME TypeOK, TypeOK', PairInv, NEW c \in Reqs, http_hgen_proceed(c)
    PROVE  PairInv'
<1>1. ASSUME NEW d \in Reqs, d # c
      PROVE  /\ RequestOK(req[d], web[d], h2o[d])'
             /\ SessionOK(req[d], web[d], told[d])'
  BY <1>1 DEF TypeOK, PairInv, RequestOK, SessionOK, http_hgen_proceed,
         PlanNothing, Sent, SendState
<1>2. /\ RequestOK(req[c], web[c], h2o[c])'
      /\ SessionOK(req[c], web[c], told[c])'
  BY DEF TypeOK, PairInv, RequestOK, SessionOK, http_hgen_proceed,
         PlanNothing, Sent, SendState,
         HReq, HWs, Live, Alive, Rsat, Tags
<1> QED
  BY <1>1, <1>2 DEF PairInv

LEMMA DonePair ==
    ASSUME TypeOK, TypeOK', PairInv, NEW c \in Reqs, http_req_done(c)
    PROVE  PairInv'
<1>1. ASSUME NEW d \in Reqs, d # c
      PROVE  /\ RequestOK(req[d], web[d], h2o[d])'
             /\ SessionOK(req[d], web[d], told[d])'
  BY <1>1 DEF TypeOK, PairInv, RequestOK, SessionOK, http_req_done, KillIf, Kill, Plan,
         PlanNothing, Detached, Freed
<1>2. /\ RequestOK(req[c], web[c], h2o[c])'
      /\ SessionOK(req[c], web[c], told[c])'
  BY DEF TypeOK, PairInv, RequestOK, SessionOK, http_req_done, KillIf, Kill, Plan,
         PlanNothing, Detached, Freed,
         HReq, HWs, Live, Alive, Rsat, Tags
<1> QED
  BY <1>1, <1>2 DEF PairInv

LEMMA UpgradePair ==
    ASSUME TypeOK, PairInv, NEW c \in Reqs, NEW ok \in BOOLEAN,
           h2o_upgrade_complete(c, ok)
    PROVE  PairInv'
<1>1. /\ req' = [req EXCEPT ![c] = [req[c] EXCEPT !.st = "done", !.wsu = FALSE,
                                                  !.tim = FALSE]]
      /\ h2o' = [h2o EXCEPT ![c] = "final"]
  BY DEF h2o_upgrade_complete, TypeOK
<1>2. \/ /\ web[c].woc = "wait"
         /\ web' = [web EXCEPT ![c] = [web[c] EXCEPT !.woc = "up"]]
         /\ told' = told
      \/ /\ web[c].woc = "wait"
         /\ web' = [web EXCEPT ![c] = [Freed(web[c]) EXCEPT !.woc = "gone"]]
         /\ told' = [told EXCEPT ![c] = told[c] \cup {"disconnect"}]
      \/ web[c].woc = "gone" /\ web' = web /\ told' = told
  BY DEF h2o_upgrade_complete, Dropped, Plan, PlanNothing, TypeOK, PairInv,
         SessionOK
<1>3. req'[c].st = "done" /\ ~req'[c].wsu
  BY <1>1 DEF TypeOK, HReq
<1>4. RequestOK(req[c], web[c], h2o[c])'
  BY <1>3 DEF RequestOK, Rsat
<1>5. SessionOK(req[c], web[c], told[c])'
  <2>1. CASE web[c].woc = "wait"
    <3>1. web[c].sat = "open" /\ ~web[c].req
      BY <2>1 DEF PairInv, SessionOK
    <3>2. CASE web'[c] = [web[c] EXCEPT !.woc = "up"]
      BY <1>3, <3>1, <3>2 DEF TypeOK, SessionOK, HWs
    <3>3. CASE /\ web'[c] = [Freed(web[c]) EXCEPT !.woc = "gone"]
               /\ "disconnect" \in told'[c]
      BY <1>3, <3>3 DEF TypeOK, SessionOK, HWs, Freed
    <3> QED
      BY <1>2, <2>1, <3>2, <3>3 DEF TypeOK
  <2>2. CASE web[c].woc = "gone"
    BY <1>2, <1>3, <2>2 DEF PairInv, SessionOK
  <2> QED
    BY <1>2, <2>1, <2>2
<1> QED
  BY <1>1, <1>2, <1>4, <1>5, Elsewhere DEF TypeOK

LEMMA MessagePair ==
    ASSUME TypeOK, TypeOK', PairInv, NEW c \in Reqs, http_ws_message(c)
    PROVE  PairInv'
<1>1. ASSUME NEW d \in Reqs, d # c
      PROVE  /\ RequestOK(req[d], web[d], h2o[d])'
             /\ SessionOK(req[d], web[d], told[d])'
  BY <1>1 DEF TypeOK, PairInv, RequestOK, SessionOK, http_ws_message, Plan
<1>2. /\ RequestOK(req[c], web[c], h2o[c])'
      /\ SessionOK(req[c], web[c], told[c])'
  BY DEF TypeOK, PairInv, RequestOK, SessionOK, http_ws_message, Plan,
         HReq, HWs, Live, Alive, Rsat, Tags
<1> QED
  BY <1>1, <1>2 DEF PairInv

LEMMA CloseFramePair ==
    ASSUME TypeOK, TypeOK', PairInv, NEW c \in Reqs, http_ws_close_frame(c)
    PROVE  PairInv'
<1>1. ASSUME NEW d \in Reqs, d # c
      PROVE  /\ RequestOK(req[d], web[d], h2o[d])'
             /\ SessionOK(req[d], web[d], told[d])'
  BY <1>1 DEF TypeOK, PairInv, RequestOK, SessionOK, http_ws_close_frame, Plan,
         PlanNothing
<1>2. /\ RequestOK(req[c], web[c], h2o[c])'
      /\ SessionOK(req[c], web[c], told[c])'
  BY DEF TypeOK, PairInv, RequestOK, SessionOK, http_ws_close_frame, Plan,
         PlanNothing,
         HReq, HWs, Live, Alive, Rsat, Tags
<1> QED
  BY <1>1, <1>2 DEF PairInv

LEMMA DroppedPair ==
    ASSUME TypeOK, TypeOK', PairInv, NEW c \in Reqs, http_ws_dropped(c)
    PROVE  PairInv'
<1>1. ASSUME NEW d \in Reqs, d # c
      PROVE  /\ RequestOK(req[d], web[d], h2o[d])'
             /\ SessionOK(req[d], web[d], told[d])'
  BY <1>1 DEF TypeOK, PairInv, RequestOK, SessionOK, http_ws_dropped, Dropped, Freed, Plan,
         PlanNothing
<1>2. /\ RequestOK(req[c], web[c], h2o[c])'
      /\ SessionOK(req[c], web[c], told[c])'
  BY DEF TypeOK, PairInv, RequestOK, SessionOK, http_ws_dropped, Dropped, Freed, Plan,
         PlanNothing,
         HReq, HWs, Live, Alive, Rsat, Tags
<1> QED
  BY <1>1, <1>2 DEF PairInv

LEMMA StartPair ==
    ASSUME TypeOK, TypeOK', PairInv, NEW c \in Reqs, NEW complete \in BOOLEAN,
           PlanNothing, http_start_respond(c, complete)
    PROVE  PairInv'
<1>1. ASSUME NEW d \in Reqs, d # c
      PROVE  /\ RequestOK(req[d], web[d], h2o[d])'
             /\ SessionOK(req[d], web[d], told[d])'
  BY <1>1 DEF TypeOK, PairInv, RequestOK, SessionOK, http_start_respond,
         PlanNothing, Sent, SendState
<1>2. /\ RequestOK(req[c], web[c], h2o[c])'
      /\ SessionOK(req[c], web[c], told[c])'
  BY DEF TypeOK, PairInv, RequestOK, SessionOK, http_start_respond,
         PlanNothing, Sent, SendState,
         HReq, HWs, Live, Alive, Rsat, Tags
<1> QED
  BY <1>1, <1>2 DEF PairInv

LEMMA ContinuePair ==
    ASSUME TypeOK, PairInv, NEW c \in Reqs, NEW complete \in BOOLEAN,
           NEW data \in BOOLEAN, PlanNothing,
           http_continue_respond(c, data, complete)
    PROVE  PairInv'
<1> DEFINE gen == IF complete THEN "done" ELSE "wait"
           r == [req[c] EXCEPT !.tim = FALSE, !.bod = @ \/ data, !.gen = gen]
<1>1. CASE req[c].gen = "none"
  BY <1>1 DEF http_continue_respond, PlanNothing, PairInv
<1>2. CASE req[c].gen # "none"
  <2>1. /\ r.st = req[c].st /\ r.wsu = req[c].wsu /\ r.red = req[c].red
        /\ r.gen # "none" /\ r \in HReq
    BY DEF TypeOK, HReq
  <2> HIDE DEF r, gen
  <2>2. /\ req' = [req EXCEPT ![c] = IF r.red THEN Sent(r) ELSE r]
        /\ h2o' = [h2o EXCEPT ![c] = IF r.red THEN SendState(r) ELSE h2o[c]]
        /\ web' = web /\ told' = told
    BY <1>2, Zenon DEF http_continue_respond, PlanNothing, r, gen
  <2>3. /\ RequestOK(req[c], web[c], h2o[c])'
        /\ SessionOK(req[c], web[c], told[c])'
    BY <1>2, <2>1, <2>2 DEF TypeOK, PairInv, RequestOK, SessionOK, Rsat, HReq,
                            Sent, SendState
  <2> QED
    BY <2>2, <2>3, Elsewhere DEF TypeOK
<1> QED
  BY <1>1, <1>2

LEMMA CancelPair ==
    ASSUME TypeOK, PairInv, NEW c \in Reqs, PlanNothing,
           http_cancel_respond(c)
    PROVE  PairInv'
<1> DEFINE r == FailedGen(c)
<1>1. CASE req[c].st = "plan"
  <2>1. /\ req' = [req EXCEPT ![c] = [req[c] EXCEPT !.st = "ripe",
                                                    !.wsu = FALSE]]
        /\ web' = [web EXCEPT ![c] = Detached(c)]
        /\ told' = told
    BY <1>1 DEF http_cancel_respond, PlanNothing, TypeOK
  <2>2. h2o' = [h2o EXCEPT ![c] = "final"]
    BY <1>1 DEF http_cancel_respond, Answer, PairInv, RequestOK, TypeOK
  <2>3. /\ RequestOK(req[c], web[c], h2o[c])'
        /\ SessionOK(req[c], web[c], told[c])'
    BY <1>1, <2>1, <2>2 DEF TypeOK, PairInv, RequestOK, SessionOK, Rsat, HReq,
                            HWs, Live, Detached, Freed
  <2> QED
    BY <2>1, <2>2, <2>3, Elsewhere DEF TypeOK
<1>2. CASE req[c].st # "plan" /\ req[c].gen = "none"
  BY <1>2 DEF http_cancel_respond, PlanNothing, PairInv
<1>3. CASE req[c].st # "plan" /\ req[c].gen # "none"
  <2>1. /\ req' = [req EXCEPT ![c] = IF r.red THEN Sent(r) ELSE r]
        /\ h2o' = [h2o EXCEPT ![c] = IF r.red THEN "final" ELSE h2o[c]]
        /\ web' = web /\ told' = told
    <3>1. /\ req' = [req EXCEPT ![c] = IF r.red THEN Sent(r) ELSE r]
          /\ h2o' = [h2o EXCEPT ![c] = IF r.red THEN SendState(r) ELSE h2o[c]]
          /\ web' = web /\ told' = told
      BY <1>3 DEF http_cancel_respond, FailedGen, PlanNothing
    <3> QED
      BY <3>1, FailedGenFields
  <2>0. /\ r \in HReq /\ r.gen = "fail" /\ r.red = req[c].red
        /\ r.st = req[c].st /\ r.wsu = req[c].wsu
    BY FailedGenFields
  <2> HIDE DEF r
  <2>2. /\ RequestOK(req[c], web[c], h2o[c])'
        /\ SessionOK(req[c], web[c], told[c])'
    BY <1>3, <2>0, <2>1 DEF TypeOK, PairInv, RequestOK, SessionOK, Rsat, HReq, Sent
  <2> QED
    BY <2>1, <2>2, Elsewhere DEF TypeOK
<1> QED
  BY <1>1, <1>2, <1>3

LEMMA RejectedOK ==
    ASSUME NEW r \in HReq, NEW w \in HWs, NEW h, NEW t,
           NEW h1 \in {h, "final"}, h1 = h \/ h = "idle", r.st \in Rsat, w.woc = "none", RequestOK(r, w, h)
    PROVE  /\ RequestOK(Rejected(r), Freed(w), h1)
           /\ SessionOK(Rejected(r), Freed(w), t)
<1>1. /\ Rejected(r).st = "ripe" /\ ~Rejected(r).wsu
      /\ Rejected(r).red = r.red /\ Rejected(r).gen = r.gen
  BY DEF Rejected, HReq
<1>2. Freed(w).sat = "freed" /\ ~Freed(w).req /\ Freed(w).woc = "none"
  BY DEF Freed, HWs
<1>3. RequestOK(Rejected(r), Freed(w), h1)
  BY <1>1, <1>2 DEF RequestOK, HReq, Rsat
<1>4. SessionOK(Rejected(r), Freed(w), t)
  BY <1>1, <1>2 DEF SessionOK
<1> QED
  BY <1>3, <1>4

LEMMA AcceptPair ==
    ASSUME TypeOK, PairInv, NEW c \in Reqs, PlanNothing, http_ws_accept(c)
    PROVE  PairInv'
<1> DEFINE kept == [req[c] EXCEPT !.st = "ripe", !.tim = FALSE]
           open == [web[c] EXCEPT !.sat = "open", !.req = FALSE,
                                  !.woc = "wait"]
<1>1. told' = told
  BY DEF PlanNothing
<1>2. \/ h2o' = h2o
      \/ h2o[c] = "idle" /\ \E a \in H2o \ {"body"} : h2o' = [h2o EXCEPT ![c] = a]
  BY DEF http_ws_accept, Answer, H2o
<1>3. \/ /\ req' = [req EXCEPT ![c] = kept]
         /\ web' = [web EXCEPT ![c] = open]
      \/ /\ req' = [req EXCEPT ![c] = Rejected(req[c])]
         /\ web' = [web EXCEPT ![c] = Freed(web[c])]
  BY DEF http_ws_accept, TypeOK, Rejected
<1>4. req[c].st \in Rsat /\ req[c].wsu /\ web[c].woc = "none"
  BY DEF PairInv, SessionOK, http_ws_accept
<1>5. \/ h2o'[c] = h2o[c]
      \/ h2o[c] = "idle" /\ h2o'[c] # "body"
  BY <1>2 DEF TypeOK
<1>6. CASE /\ req' = [req EXCEPT ![c] = kept]
           /\ web' = [web EXCEPT ![c] = open]
  <2>1. /\ kept.st = "ripe" /\ kept.red = req[c].red /\ kept.gen = req[c].gen
        /\ kept.wsu = req[c].wsu
    BY DEF TypeOK, HReq
  <2>2. open.sat = "open" /\ open.woc = "wait" /\ ~open.req
    BY DEF TypeOK, HWs
  <2>3. req'[c] = kept /\ web'[c] = open
    BY <1>6 DEF TypeOK
  <2> HIDE DEF kept, open
  <2>4. RequestOK(req[c], web[c], h2o[c])'
    BY <1>4, <1>5, <2>1, <2>3 DEF PairInv, RequestOK, Rsat
  <2>5. SessionOK(req[c], web[c], told[c])'
    BY <2>1, <2>2, <2>3 DEF SessionOK, Rsat, Live
  <2> QED
    BY <1>1, <1>2, <1>6, <2>4, <2>5, Elsewhere DEF TypeOK
<1>7. CASE /\ req' = [req EXCEPT ![c] = Rejected(req[c])]
           /\ web' = [web EXCEPT ![c] = Freed(web[c])]
  <2> DEFINE r == Rejected(req[c])
             w == Freed(web[c])
  <2>1. /\ r.st = "ripe" /\ r.red = req[c].red /\ r.gen = req[c].gen
        /\ ~r.wsu
    BY DEF TypeOK, HReq, Rejected
  <2>2. w.sat = "freed" /\ w.woc = "none" /\ ~w.req
    BY <1>4 DEF TypeOK, HWs, Freed
  <2>3. req'[c] = r /\ web'[c] = w
    BY <1>7 DEF TypeOK
  <2> HIDE DEF r, w
  <2>4. RequestOK(req[c], web[c], h2o[c])'
    BY <1>4, <1>5, <2>1, <2>3 DEF PairInv, RequestOK, Rsat
  <2>5. SessionOK(req[c], web[c], told[c])'
    BY <2>1, <2>2, <2>3 DEF SessionOK, Rsat, Live
  <2> QED
    BY <1>1, <1>2, <1>7, <2>4, <2>5, Elsewhere DEF TypeOK
<1> QED
  BY <1>3, <1>6, <1>7

LEMMA DisconnectPair ==
    ASSUME TypeOK, PairInv, NEW c \in Reqs, PlanNothing, http_ws_disconnect(c)
    PROVE  PairInv'
<1>1. told' = told
  BY DEF PlanNothing
<1>2. CASE http_ws_reject(c)
  <2>1. h2o' \in {h2o, [h2o EXCEPT ![c] = "final"]}
    BY <1>2 DEF http_ws_reject, Answer
  <2>2. /\ req' = [req EXCEPT ![c] = Rejected(req[c])]
        /\ web' = [web EXCEPT ![c] = Freed(web[c])]
        /\ web[c].sat = "pending"
    BY <1>2 DEF http_ws_reject, TypeOK
  <2>3. web[c].woc = "none" /\ req[c].st \in Rsat
    BY <2>2 DEF PairInv, SessionOK
  <2>4. h2o'[c] \in {h2o[c], "final"} /\ (h2o'[c] = h2o[c] \/ h2o[c] = "idle")
    BY <1>2 DEF TypeOK, http_ws_reject, Answer
  <2>5. /\ req'[c] = Rejected(req[c]) /\ web'[c] = Freed(web[c])
        /\ told'[c] = told[c]
    BY <1>1, <2>2 DEF TypeOK
  <2>6. /\ RequestOK(req[c], web[c], h2o[c])'
        /\ SessionOK(req[c], web[c], told[c])'
    BY <2>3, <2>4, <2>5, RejectedOK DEF TypeOK, PairInv
  <2> QED
    BY <1>1, <2>1, <2>2, <2>6, Elsewhere DEF TypeOK
<1>3. CASE ~http_ws_reject(c)
  <2>1. /\ web[c].sat = "open"
        /\ web' = [web EXCEPT ![c] = Closing(web[c])]
        /\ req' = req /\ h2o' = h2o
    BY <1>3 DEF http_ws_disconnect, TypeOK
  <2>2. /\ RequestOK(req[c], web[c], h2o[c])'
        /\ SessionOK(req[c], web[c], told[c])'
    BY <1>1, <2>1 DEF TypeOK, PairInv, RequestOK, SessionOK, HWs, Live, Closing
  <2> QED
    BY <1>1, <2>1, <2>2, Elsewhere DEF TypeOK
<1> QED
  BY <1>2, <1>3

LEMMA SendMessagePair ==
    ASSUME TypeOK, PairInv, NEW c \in Reqs, http_ws_send_message(c)
    PROVE  PairInv'
<1>1. req' = req /\ h2o' = h2o
  BY DEF http_ws_send_message
<1>2. CASE UNCHANGED <<web, told>>
  BY <1>1, <1>2 DEF PairInv
<1>3. CASE web[c].woc = "up" /\ Dropped(c)
  <2>1. web[c].sat = "open"
    BY <1>3 DEF PairInv, SessionOK
  <2>2. /\ web' = [web EXCEPT ![c] = [Freed(web[c]) EXCEPT !.woc = "gone"]]
        /\ told' = [told EXCEPT ![c] = told[c] \cup {"disconnect"}]
    BY <1>3, <2>1 DEF Dropped, Plan
  <2>3. /\ RequestOK(req[c], web[c], h2o[c])'
        /\ SessionOK(req[c], web[c], told[c])'
    BY <1>1, <1>3, <2>2 DEF TypeOK, PairInv, RequestOK, SessionOK, HWs, Live,
                            Freed
  <2> QED
    BY <1>1, <2>2, <2>3, Elsewhere DEF TypeOK
<1> QED
  BY <1>2, <1>3 DEF http_ws_send_message, PlanNothing

LEMMA CloseAllPair ==
    ASSUME TypeOK, PairInv, http_ws_close_all, PlanNothing
    PROVE  PairInv'
<1> SUFFICES ASSUME NEW c \in Reqs
             PROVE  /\ RequestOK(req[c], web[c], h2o[c])'
                    /\ SessionOK(req[c], web[c], told[c])'
  BY DEF PairInv
<1>1. told' = told
  BY DEF PlanNothing
<1>2. CASE web[c].sat = "pending"
  <2>1. req'[c] = Rejected(req[c]) /\ web'[c] = Freed(web[c])
    BY <1>2 DEF http_ws_close_all
  <2>2. h2o'[c] \in {h2o[c], "final"} /\ (h2o'[c] = h2o[c] \/ h2o[c] = "idle")
    BY DEF http_ws_close_all
  <2>3. web[c].woc = "none" /\ req[c].st \in Rsat
    BY <1>2 DEF PairInv, SessionOK
  <2> QED
    BY <1>1, <2>1, <2>2, <2>3, RejectedOK DEF TypeOK, PairInv
<1>3. CASE web[c].sat = "open"
  <2>1. req'[c] = req[c] /\ web'[c] = Closing(web[c]) /\ h2o'[c] = h2o[c]
    BY <1>3 DEF http_ws_close_all
  <2> QED
    BY <1>1, <1>3, <2>1 DEF TypeOK, PairInv, RequestOK, SessionOK, HWs, Live,
                            Closing
<1>4. CASE web[c].sat \notin {"pending", "open"}
  <2>1. req'[c] = req[c] /\ web'[c] = web[c] /\ h2o'[c] = h2o[c]
    BY <1>4 DEF http_ws_close_all
  <2> QED
    BY <1>1, <2>1 DEF PairInv
<1> QED
  BY <1>2, <1>3, <1>4

-----------------------------------------------------------------------------
(* CounterInv is inductive: only a handshake touches the counter and links a *)
(* session, and no handler changes the id or the age of one that was linked. *)

\* No session begins in the step, and none changes its id.
SessionsKept ==
    \A c \in Reqs :
      /\ web[c].sat # "none" <=> web'[c].sat # "none"
      /\ web'[c].wid = web[c].wid /\ web'[c].birth = web[c].birth

LEMMA CounterKept ==
    ASSUME CounterInv, wid_l' = wid_l, births' = births,
           SessionsKept
    PROVE  CounterInv'
BY DEF CounterInv, SessionsKept

LEMMA SmallModulo ==
    ASSUME NEW n \in Nat, n < WidMod PROVE n % WidMod = n
BY WidModAssumption

LEMMA HandshakeCounter ==
    ASSUME TypeOK, CounterInv, NEW c \in Reqs, http_ws_handshake(c),
           web[c].sat = "none"
    PROVE  CounterInv'
<1> DEFINE wid == IF wid_l = 0 THEN 1 ELSE wid_l
<1>1. /\ wid_l' = (wid + 1) % WidMod /\ births' = births + 1
      /\ web' = [web EXCEPT ![c] = [sat |-> "pending", wid |-> wid, req |-> TRUE,
                                    woc |-> "none", birth |-> births]]
  BY DEF http_ws_handshake
<1>2. wid \in 0 .. (WidMod - 1) /\ births \in Nat
  BY WidModAssumption DEF TypeOK
<1>3. births + 1 < WidMod => wid = births + 1
  <2>1. births = 0 => wid_l = 0
    BY DEF CounterInv
  <2>2. births > 0 /\ births + 1 < WidMod => wid_l = births + 1
    BY DEF CounterInv
  <2>3. CASE births = 0
    BY <2>1, <2>3
  <2>4. CASE births > 0 /\ births + 1 < WidMod
    <3>1. births + 1 # 0
      BY <1>2
    <3>2. wid_l = births + 1
      BY <2>2, <2>4
    <3> QED
      BY <3>1, <3>2, Zenon
  <2>5. births = 0 \/ births > 0
    BY <1>2
  <2> QED
    BY <2>3, <2>4, <2>5, Zenon
<1>4. births + 2 < WidMod => wid_l' = births + 2
  <2> SUFFICES ASSUME births + 2 < WidMod PROVE wid_l' = births + 2
    OBVIOUS
  <2>1. births + 1 < WidMod /\ births + 2 \in Nat
    BY <1>2, WidModAssumption
  <2>2. (births + 2) % WidMod = births + 2
    BY <2>1, SmallModulo
  <2>3. (births + 1) + 1 = births + 2
    BY <1>2
  <2>4. wid + 1 = births + 2
    BY <1>3, <2>1, <2>3, Zenon
  <2> QED
    BY <1>1, <2>2, <2>4, Zenon
<1>5. /\ web'[c].birth = births /\ web'[c].wid = wid
      /\ \A d \in Reqs : d # c => web'[d] = web[d]
  BY <1>1 DEF TypeOK
<1>6. \A d \in Reqs : web[d].birth \in Nat /\ web[d].wid \in Nat
  BY WidModAssumption DEF TypeOK, HWs
<1> HIDE DEF wid
<1>7. \A d \in Reqs : web'[d].sat # "none" =>
         /\ web'[d].birth < births + 1
         /\ births + 1 < WidMod => web'[d].wid = web'[d].birth + 1
  BY <1>2, <1>3, <1>5, <1>6, WidModAssumption DEF CounterInv
<1>8. \A d, e \in Reqs : web'[d].sat # "none" /\ web'[e].sat # "none"
                             /\ web'[d].birth = web'[e].birth => d = e
  BY <1>2, <1>5, <1>6 DEF CounterInv
<1> QED
  BY <1>1, <1>2, <1>4, <1>7, <1>8 DEF CounterInv

\* What a step but a handshake, and but an accept, makes of a session: it goes
\* on, or from open to closing.
Aged(v, w) ==
    \/ v = w
    \/ w.sat # "none" /\ v = Freed(w)
    \/ w.sat # "none" /\ v = [Freed(w) EXCEPT !.woc = "gone"]
    \/ w.sat = "open" /\ v = Closing(w)
    \/ w.woc = "wait" /\ v = [w EXCEPT !.woc = "up"]
    \/ w.woc = "up" /\ v = [w EXCEPT !.sat = "closed", !.woc = "shut"]

Opened(v, w) ==
    w.sat = "pending" /\ v = [w EXCEPT !.sat = "open", !.req = FALSE,
                                       !.woc = "wait"]

LEMMA AgedKeeps ==
    ASSUME TypeOK, PairInv, NEW c \in Reqs,
           Aged(web'[c], web[c]) \/ Opened(web'[c], web[c])
    PROVE  /\ web[c].sat # "none" <=> web'[c].sat # "none"
           /\ web'[c].wid = web[c].wid /\ web'[c].birth = web[c].birth
           /\ web'[c].sat = "pending" => web[c].sat = "pending"
           /\ Aged(web'[c], web[c]) /\ web'[c].sat = "open"
                => web[c].sat = "open"
<1>1. web[c] \in HWs
  BY DEF TypeOK
<1>2. web[c].woc \in {"wait", "up"} => web[c].sat = "open"
  BY DEF PairInv, SessionOK
<1>3. CASE Opened(web'[c], web[c])
  <2>1. /\ web'[c].sat = "open" /\ web[c].sat = "pending"
        /\ web'[c].wid = web[c].wid /\ web'[c].birth = web[c].birth
    BY <1>1, <1>3 DEF Opened, HWs
  <2>2. ~Aged(web'[c], web[c])
    BY <1>1, <1>2, <2>1 DEF Aged, HWs, Freed
  <2> QED
    BY <2>1, <2>2
<1>4. CASE Aged(web'[c], web[c])
  <2>1. CASE web'[c] = web[c]
    BY <2>1
  <2>2. CASE web[c].sat # "none" /\ web'[c] = Freed(web[c])
    BY <1>1, <2>2 DEF HWs, Freed
  <2>3. CASE /\ web[c].sat # "none"
             /\ web'[c] = [Freed(web[c]) EXCEPT !.woc = "gone"]
    BY <1>1, <2>3 DEF HWs, Freed
  <2>4. CASE web[c].sat = "open" /\ web'[c] = Closing(web[c])
    BY <1>1, <2>4 DEF HWs, Closing
  <2>5. CASE web[c].woc = "wait" /\ web'[c] = [web[c] EXCEPT !.woc = "up"]
    BY <1>1, <1>2, <2>5 DEF HWs
  <2>6. CASE /\ web[c].woc = "up"
             /\ web'[c] = [web[c] EXCEPT !.sat = "closed", !.woc = "shut"]
    BY <1>1, <1>2, <2>6 DEF HWs
  <2> QED
    BY <1>4, <2>1, <2>2, <2>3, <2>4, <2>5, <2>6 DEF Aged
<1> QED
  BY <1>3, <1>4

LEMMA CallbackSessions ==
    ASSUME TypeOK, PairInv, NEW c \in Reqs, Callback(c)
    PROVE  /\ wid_l' = wid_l /\ births' = births
           /\ \A d \in Reqs : Aged(web'[d], web[d])
<1>1. /\ wid_l' = wid_l /\ births' = births
      /\ \A d \in Reqs : d # c => web'[d] = web[d]
  BY DEF Callback, http_req_timer_cb, http_timeout_planned, http_timeout_ripe,
         http_hgen_proceed, http_req_done, h2o_upgrade_complete, Dropped,
         http_ws_message, http_ws_close_frame, http_ws_dropped, TypeOK
<1>2. \/ web'[c] = web[c]
      \/ web[c].req /\ web'[c] = Freed(web[c])
      \/ /\ web[c].woc \in {"wait", "up", "shut"}
         /\ web'[c] = [Freed(web[c]) EXCEPT !.woc = "gone"]
      \/ web[c].woc = "wait" /\ web'[c] = [web[c] EXCEPT !.woc = "up"]
      \/ web[c].woc = "up"
         /\ web'[c] = [web[c] EXCEPT !.sat = "closed", !.woc = "shut"]
  BY DEF Callback, http_req_timer_cb, http_timeout_planned, http_timeout_ripe,
         http_hgen_proceed, http_req_done, h2o_upgrade_complete, Dropped,
         http_ws_message, http_ws_close_frame, http_ws_dropped, Detached, TypeOK
<1>3. web[c].req \/ web[c].woc \in {"wait", "up", "shut"}
        => web[c].sat # "none"
  BY DEF PairInv, SessionOK
<1> QED
  BY <1>1, <1>2, <1>3 DEF Aged

LEMMA EffectSessions ==
    ASSUME TypeOK, PairInv, NEW e \in Effects,
           http_ef_http_server(e) \/ http_serv_close_cb
    PROVE  /\ wid_l' = wid_l /\ births' = births
           /\ \A d \in Reqs :
                \/ Aged(web'[d], web[d])
                \/ /\ Opened(web'[d], web[d])
                   /\ http_ef_http_server(e) /\ e.tag = "accept"
                   /\ Found(d, e.wid)
<1>1. wid_l' = wid_l /\ births' = births
  BY DEF http_ef_http_server, http_serv_close_cb
<1>2. CASE http_ws_response(e) /\ http_ef_http_server(e)
  <2>1. PICK c \in Reqs :
           /\ Found(c, e.wid)
           /\ \/ e.tag = "accept" /\ http_ws_accept(c)
              \/ http_ws_disconnect(c)
              \/ http_ws_send_message(c)
    BY <1>2 DEF http_ws_response, http_ws_disconnect
  <2>2. \A d \in Reqs : d # c => web'[d] = web[d]
    BY <2>1 DEF http_ws_accept, http_ws_disconnect, http_ws_reject,
                http_ws_send_message, Dropped, TypeOK
  <2>3. \/ web'[c] = web[c]
        \/ web'[c] = Freed(web[c])
        \/ web'[c] = [Freed(web[c]) EXCEPT !.woc = "gone"]
        \/ web[c].sat = "open" /\ web'[c] = Closing(web[c])
        \/ /\ web[c].sat = "pending" /\ e.tag = "accept"
           /\ web'[c] = [web[c] EXCEPT !.sat = "open", !.req = FALSE,
                                       !.woc = "wait"]
    BY <2>1 DEF http_ws_accept, http_ws_disconnect, http_ws_reject,
                http_ws_send_message, Dropped, TypeOK
  <2>4. web[c].sat # "none"
    BY <2>1 DEF Found, Live
  <2> QED
    BY <1>1, <1>2, <2>1, <2>2, <2>3, <2>4 DEF Aged, Opened
<1>3. CASE http_response(e)
  <2>1. e.req \in Reqs
    BY <1>3, EffectFields DEF http_response, Responses
  <2>2. \A d \in Reqs : \/ web'[d] = web[d]
                        \/ web[d].req /\ web'[d] = Freed(web[d])
    BY <1>3, <2>1 DEF http_response, http_start_respond, http_continue_respond,
                      http_cancel_respond, Detached, TypeOK
  <2> QED
    BY <1>1, <2>2 DEF PairInv, SessionOK, Aged
<1>4. CASE http_ws_close_all
  <2>1. \A d \in Reqs : \/ web'[d] = web[d]
                        \/ web[d].sat = "pending" /\ web'[d] = Freed(web[d])
                        \/ web[d].sat = "open" /\ web'[d] = Closing(web[d])
    BY <1>4 DEF http_ws_close_all
  <2> QED
    BY <1>1, <2>1 DEF Aged
<1>5. CASE UNCHANGED web
  BY <1>1, <1>5 DEF Aged
<1> QED
  BY <1>2, <1>3, <1>4, <1>5
  DEF http_ef_http_server, http_ef_form, http_serv_close_cb,
      http_serv_start_all

LEMMA AgedCounter ==
    ASSUME IInv, wid_l' = wid_l, births' = births,
           \A c \in Reqs : Aged(web'[c], web[c]) \/ Opened(web'[c], web[c])
    PROVE  CounterInv'
<1>1. SessionsKept
  BY AgedKeeps DEF IInv, SessionsKept
<1> QED
  BY <1>1, CounterKept DEF IInv

-----------------------------------------------------------------------------
(* ReportInv is inductive, up to the first fault.                            *)

LEMMA ReportElsewhere ==
    ASSUME ReportInv, fault = "none", NEW c \in Reqs,
           \A d \in Reqs \ {c} : /\ req'[d] = req[d] /\ web'[d] = web[d]
                                 /\ h2o'[d] = h2o[d] /\ told'[d] = told[d],
           fault' = "none" => ReportOK(req[c], web[c], h2o[c], told[c])'
    PROVE  ReportInv'
BY DEF ReportInv

LEMMA ArriveReport ==
    ASSUME TypeOK, PairInv, ReportInv, fault = "none",
           NEW c \in Reqs, http_rec_accept(c)
    PROVE  ReportInv'
<1>1. /\ req[c].st = "free" /\ web[c].sat = "none" /\ told[c] = {}
      /\ h2o[c] = "idle"
  BY DEF http_rec_accept, http_req_dispatch, http_bad_handshake,
         http_ws_handshake, PairInv, RequestOK, ReportInv, ReportOK
<1>2. CASE http_req_dispatch(c)
  <2>1. /\ req' = [req EXCEPT ![c] = Prepared] /\ web' = web /\ h2o' = h2o
        /\ told' = [told EXCEPT ![c] = told[c] \cup {"request"}]
    BY <1>2 DEF http_req_dispatch, Plan
  <2>2. ReportOK(req[c], web[c], h2o[c], told[c])'
    BY <1>1, <2>1 DEF TypeOK, ReportOK, Prepared, NoReq
  <2> QED
    BY <2>1, <2>2, ReportElsewhere DEF TypeOK
<1>3. CASE http_bad_handshake(c)
  <2>1. /\ req' = [req EXCEPT ![c] = [NoReq EXCEPT !.st = "ripe"]]
        /\ h2o' = [h2o EXCEPT ![c] = "final"] /\ web' = web /\ told' = told
    BY <1>3 DEF http_bad_handshake, PlanNothing
  <2>2. ReportOK(req[c], web[c], h2o[c], told[c])'
    BY <1>1, <2>1 DEF TypeOK, ReportOK, NoReq
  <2> QED
    BY <2>1, <2>2, ReportElsewhere DEF TypeOK
<1>4. CASE http_ws_handshake(c)
  <2>1. /\ req' = [req EXCEPT ![c] = [Prepared EXCEPT !.wsu = TRUE]]
        /\ h2o' = h2o
        /\ told' = [told EXCEPT ![c] = told[c] \cup {"websocket-handshake"}]
        /\ \A d \in Reqs \ {c} : web'[d] = web[d]
        /\ web'[c].sat = "pending"
    BY <1>4 DEF http_ws_handshake, Plan, TypeOK
  <2>2. ReportOK(req[c], web[c], h2o[c], told[c])'
    BY <1>1, <2>1 DEF TypeOK, ReportOK, Prepared, NoReq
  <2> QED
    BY <2>1, <2>2, ReportElsewhere DEF TypeOK
<1> QED
  BY <1>2, <1>3, <1>4 DEF http_rec_accept

LEMMA TimerReport ==
    ASSUME TypeOK, PairInv, ReportInv, fault = "none",
           NEW c \in Reqs, http_req_timer_cb(c)
    PROVE  ReportInv'
<1>1. ReportOK(req[c], web[c], h2o[c], told[c])
  BY DEF ReportInv
<1>2. CASE http_timeout_planned(c)
  <2>1. /\ req' = [req EXCEPT ![c] = [req[c] EXCEPT !.st = "ripe", !.tim = FALSE]]
        /\ told' = [told EXCEPT ![c] = told[c] \cup {"cancel-request"}]
        /\ web' = web
    BY <1>2 DEF http_timeout_planned, Kill, Plan, TypeOK
  <2>2. h2o[c] = "idle" /\ h2o' = [h2o EXCEPT ![c] = "final"]
    BY <1>2 DEF http_timeout_planned, Answer, PairInv, RequestOK, TypeOK
  <2>3. web[c].sat # "open"
    BY <1>1, <1>2, <2>2 DEF http_timeout_planned, ReportOK, Rsat
  <2>4. ReportOK(req[c], web[c], h2o[c], told[c])'
    BY <1>1, <2>1, <2>2, <2>3 DEF TypeOK, ReportOK, HReq
  <2> QED
    BY <2>1, <2>2, <2>4, ReportElsewhere DEF TypeOK
<1>3. CASE http_timeout_ripe(c) /\ req[c].gen = "none"
  BY <1>3 DEF http_timeout_ripe, ReportInv
<1>4. CASE http_timeout_ripe(c) /\ req[c].gen # "none"
  <2> DEFINE r == FailedGen(c)
  <2>1. /\ req' = [req EXCEPT ![c] = IF r.red THEN Sent(r) ELSE r]
        /\ h2o' = [h2o EXCEPT ![c] = IF r.red THEN SendState(r) ELSE h2o[c]]
        /\ web' = web /\ req[c].st = "ripe"
    BY <1>4 DEF http_timeout_ripe, FailedGen
  <2>2. /\ r \in HReq /\ r.gen = "fail" /\ r.red = req[c].red
        /\ r.st = req[c].st /\ SendState(r) = "final"
    BY FailedGenFields
  <2> HIDE DEF r
  <2>3. \/ told' = told
        \/ told' = [told EXCEPT ![c] = told[c] \cup {"cancel-request"}]
    BY <1>4 DEF http_timeout_ripe, KillIf, Kill, Plan, PlanNothing, TypeOK
  <2>4. req'[c].st = "ripe" /\ h2o'[c] \in {h2o[c], "final"}
    BY <2>1, <2>2 DEF TypeOK, HReq, Sent
  <2>5. web[c].sat # "open" /\ h2o[c] # "upgrade" /\ h2o[c] # "idle"
    BY <1>1, <1>4, <2>1 DEF ReportOK, Rsat
  <2>6. ReportOK(req[c], web[c], h2o[c], told[c])'
    BY <1>1, <2>1, <2>3, <2>4, <2>5 DEF TypeOK, ReportOK
  <2> QED
    BY <2>1, <2>3, <2>6, ReportElsewhere DEF TypeOK
<1> QED
  BY <1>2, <1>3, <1>4 DEF http_req_timer_cb

LEMMA RequestCallbackReport ==
    ASSUME TypeOK, PairInv, ReportInv, fault = "none", NEW c \in Reqs,
           http_hgen_proceed(c) \/ http_req_done(c)
    PROVE  ReportInv'
<1>1. ReportOK(req[c], web[c], h2o[c], told[c])
  BY DEF ReportInv
<1>2. CASE http_hgen_proceed(c)
  <2>1. /\ \A d \in Reqs \ {c} : req'[d] = req[d] /\ h2o'[d] = h2o[d]
        /\ req'[c].st = req[c].st /\ h2o[c] = "body"
        /\ h2o'[c] \in {"body", "final"} /\ req[c].st \in Rsat
        /\ web' = web /\ told' = told
    BY <1>2 DEF http_hgen_proceed, Alive, PlanNothing, TypeOK, HReq, Sent,
                SendState
  <2>2. req[c].st = "ripe"
    BY <2>1 DEF PairInv, RequestOK, Rsat
  <2>3. ReportOK(req[c], web[c], h2o[c], told[c])'
    BY <1>1, <2>1, <2>2 DEF ReportOK, Rsat
  <2> QED
    BY <2>1, <2>3, ReportElsewhere
<1>3. CASE http_req_done(c)
  <2>1. /\ \A d \in Reqs \ {c} : req'[d] = req[d] /\ web'[d] = web[d]
        /\ req'[c].st = "done" /\ h2o' = h2o /\ web'[c] = Detached(c)
        /\ req[c].st \in Rsat /\ h2o[c] # "upgrade"
    BY <1>3 DEF http_req_done, Alive, TypeOK, HReq
  <2>2. /\ \A d \in Reqs \ {c} : told'[d] = told[d]
        /\ told'[c] \subseteq told[c] \cup {"cancel-request"}
    BY <1>3 DEF http_req_done, KillIf, Kill, Plan, PlanNothing, TypeOK
  <2>3. /\ web'[c].sat \notin {"open", "pending"}
        /\ web[c].sat = "closed" => web'[c].sat = "closed"
        /\ web[c].sat = "freed" => web'[c].sat = "freed"
    BY <1>1, <2>1 DEF ReportOK, PairInv, SessionOK, Detached, Freed, TypeOK, HWs
  <2>4. ReportOK(req[c], web[c], h2o[c], told[c])'
    BY <1>1, <2>1, <2>2, <2>3 DEF ReportOK, Rsat
  <2> QED
    BY <2>1, <2>2, <2>4, ReportElsewhere
<1> QED
  BY <1>2, <1>3

LEMMA DroppedReport ==
    ASSUME TypeOK, PairInv, NEW c \in Reqs, Dropped(c)
    PROVE  /\ web'[c].sat = "freed"
           /\ told'[c] \subseteq told[c] \cup {"disconnect"}
           /\ \A d \in Reqs \ {c} : web'[d] = web[d] /\ told'[d] = told[d]
<1>1. web'[c].sat = "freed"
  BY DEF Dropped, Freed, TypeOK, HWs
<1> QED
  BY <1>1 DEF Dropped, Plan, PlanNothing, TypeOK

LEMMA SocketCallbackReport ==
    ASSUME TypeOK, PairInv, ReportInv, fault = "none", NEW c \in Reqs,
           \/ \E ok \in BOOLEAN : h2o_upgrade_complete(c, ok)
           \/ http_ws_message(c) \/ http_ws_close_frame(c) \/ http_ws_dropped(c)
    PROVE  ReportInv'
<1>1. ReportOK(req[c], web[c], h2o[c], told[c])
  BY DEF ReportInv
<1>2. CASE \E ok \in BOOLEAN : h2o_upgrade_complete(c, ok)
  <2>0. PICK ok \in BOOLEAN : h2o_upgrade_complete(c, ok)
    BY <1>2
  <2>1. /\ \A d \in Reqs \ {c} : req'[d] = req[d] /\ h2o'[d] = h2o[d]
        /\ req'[c].st = "done" /\ h2o'[c] = "final"
    BY <2>0 DEF h2o_upgrade_complete, TypeOK, HReq
  <2>2. CASE Dropped(c)
    <3>1. ReportOK(req[c], web[c], h2o[c], told[c])'
      BY <1>1, <2>1, <2>2, DroppedReport DEF ReportOK, Rsat
    <3> QED
      BY <2>1, <2>2, <3>1, DroppedReport, ReportElsewhere
  <2>3. CASE ~Dropped(c)
    <3>1. /\ \A d \in Reqs \ {c} : web'[d] = web[d]
          /\ web'[c].sat = web[c].sat /\ told' = told
      BY <2>0, <2>3 DEF h2o_upgrade_complete, PlanNothing, TypeOK, HWs
    <3>2. ReportOK(req[c], web[c], h2o[c], told[c])'
      BY <1>1, <2>1, <3>1 DEF ReportOK, Rsat
    <3> QED
      BY <2>1, <3>1, <3>2, ReportElsewhere
  <2> QED
    BY <2>2, <2>3
<1>3. CASE http_ws_message(c)
  <2>1. /\ req' = req /\ web' = web /\ h2o' = h2o
        /\ told' = [told EXCEPT ![c] = told[c] \cup {"message"}]
        /\ web[c].woc = "up"
    BY <1>3 DEF http_ws_message, Plan
  <2>2. req[c].st # "free"
    BY <2>1 DEF PairInv, RequestOK, SessionOK
  <2>3. ReportOK(req[c], web[c], h2o[c], told[c])'
    BY <1>1, <2>1, <2>2 DEF TypeOK, ReportOK
  <2> QED
    BY <2>1, <2>3, ReportElsewhere DEF TypeOK
<1>4. CASE http_ws_close_frame(c)
  <2>1. /\ req' = req /\ h2o' = h2o /\ web[c].woc = "up"
        /\ \A d \in Reqs \ {c} : web'[d] = web[d] /\ told'[d] = told[d]
        /\ web'[c].sat = "closed"
        /\ told'[c] \subseteq told[c] \cup {"disconnect"}
    BY <1>4 DEF http_ws_close_frame, Plan, PlanNothing, TypeOK, HWs
  <2>2. req[c].st # "free"
    BY <2>1 DEF PairInv, RequestOK, SessionOK
  <2>3. ReportOK(req[c], web[c], h2o[c], told[c])'
    BY <1>1, <2>1, <2>2 DEF ReportOK
  <2> QED
    BY <2>1, <2>3, ReportElsewhere
<1>5. CASE http_ws_dropped(c)
  <2>1. /\ req' = req /\ h2o' = h2o /\ web[c].woc \in {"up", "shut"}
        /\ Dropped(c)
    BY <1>5 DEF http_ws_dropped
  <2>2. req[c].st # "free"
    BY <2>1 DEF PairInv, RequestOK, SessionOK
  <2>3. ReportOK(req[c], web[c], h2o[c], told[c])'
    BY <1>1, <2>1, <2>2, DroppedReport DEF ReportOK
  <2> QED
    BY <2>1, <2>3, DroppedReport, ReportElsewhere
<1> QED
  BY <1>2, <1>3, <1>4, <1>5

LEMMA ResponseReport ==
    ASSUME TypeOK, PairInv, ReportInv, fault = "none", NEW e \in Effects,
           http_response(e)
    PROVE  ReportInv'
<1> DEFINE c == e.req
<1>0. /\ c \in Reqs /\ e.complete \in BOOLEAN /\ e.data \in BOOLEAN
      /\ told' = told
  BY EffectFields DEF http_response, Responses, PlanNothing
<1>1. ReportOK(req[c], web[c], h2o[c], told[c])
  BY <1>0 DEF ReportInv
<1> HIDE DEF c
<1>2. CASE http_start_respond(c, e.complete)
  <2>1. /\ \A d \in Reqs \ {c} : req'[d] = req[d] /\ h2o'[d] = h2o[d]
        /\ req'[c].st = "ripe" /\ h2o'[c] \in {"body", "final"}
        /\ req[c].st = "plan" /\ web' = web
    BY <1>0, <1>2 DEF http_start_respond, TypeOK, HReq, Sent, SendState
  <2>2. h2o[c] = "idle"
    BY <1>0, <2>1 DEF PairInv, RequestOK
  <2>3. ReportOK(req[c], web[c], h2o[c], told[c])'
    BY <1>0, <1>1, <2>1, <2>2 DEF ReportOK, Rsat
  <2> QED
    BY <1>0, <2>1, <2>3, ReportElsewhere
<1>3. ASSUME /\ \A d \in Reqs \ {c} : req'[d] = req[d] /\ h2o'[d] = h2o[d]
             /\ req'[c].st = "ripe" /\ h2o'[c] \in {h2o[c], "body", "final"}
             /\ req[c].st = "ripe" /\ req[c].gen # "none" /\ web' = web
      PROVE  ReportInv'
  <2>1. ReportOK(req[c], web[c], h2o[c], told[c])'
    BY <1>0, <1>1, <1>3 DEF ReportOK, Rsat
  <2> QED
    BY <1>0, <1>3, <2>1, ReportElsewhere
<1>4. CASE http_continue_respond(c, e.data, e.complete)
  <2> DEFINE gen == IF e.complete THEN "done" ELSE "wait"
             r == [req[c] EXCEPT !.tim = FALSE, !.bod = @ \/ e.data, !.gen = gen]
  <2>1. CASE req[c].gen = "none"
    BY <1>0, <1>4, <2>1 DEF http_continue_respond, ReportInv
  <2>2. CASE req[c].gen # "none"
    <3>1. r.st = req[c].st /\ r \in HReq
      BY <1>0 DEF TypeOK, HReq
    <3> HIDE DEF r, gen
    <3>2. /\ req' = [req EXCEPT ![c] = IF r.red THEN Sent(r) ELSE r]
          /\ h2o' = [h2o EXCEPT ![c] = IF r.red THEN SendState(r) ELSE h2o[c]]
          /\ web' = web /\ req[c].st = "ripe"
      BY <1>4, <2>2, Zenon DEF http_continue_respond, r, gen
    <3>3. /\ req'[c].st = "ripe" /\ h2o'[c] \in {h2o[c], "body", "final"}
          /\ \A d \in Reqs \ {c} : req'[d] = req[d] /\ h2o'[d] = h2o[d]
      BY <1>0, <3>1, <3>2 DEF TypeOK, HReq, Sent, SendState
    <3> QED
      BY <1>3, <2>2, <3>2, <3>3
  <2> QED
    BY <2>1, <2>2
<1>5. CASE http_cancel_respond(c)
  <2>1. CASE req[c].st = "plan"
    <3>1. /\ req' = [req EXCEPT ![c] = [req[c] EXCEPT !.st = "ripe",
                                                      !.wsu = FALSE]]
          /\ web' = [web EXCEPT ![c] = Detached(c)]
      BY <1>0, <1>5, <2>1 DEF http_cancel_respond, TypeOK
    <3>2. h2o' = [h2o EXCEPT ![c] = "final"] /\ h2o[c] = "idle"
      BY <1>0, <1>5, <2>1
      DEF http_cancel_respond, Answer, PairInv, RequestOK, TypeOK
    <3>3. req'[c].st = "ripe" /\ h2o'[c] = "final" /\ web'[c] = Detached(c)
      BY <1>0, <3>1, <3>2 DEF TypeOK, HReq
    <3>4. Detached(c).sat \in {web[c].sat, "freed"}
      BY <1>0 DEF Detached, Freed, TypeOK, HWs
    <3>5. web[c].sat # "open"
      BY <1>1, <2>1, <3>2 DEF ReportOK, Rsat
    <3>6. ReportOK(req[c], web[c], h2o[c], told[c])'
      BY <1>0, <1>1, <3>3, <3>4, <3>5 DEF ReportOK, Rsat
    <3> QED
      BY <1>0, <3>1, <3>2, <3>6, ReportElsewhere DEF TypeOK
  <2>2. CASE req[c].st # "plan" /\ req[c].gen = "none"
    BY <1>0, <1>5, <2>2 DEF http_cancel_respond, ReportInv
  <2>3. CASE req[c].st # "plan" /\ req[c].gen # "none"
    <3> DEFINE r == FailedGen(c)
    <3>1. /\ req' = [req EXCEPT ![c] = IF r.red THEN Sent(r) ELSE r]
          /\ h2o' = [h2o EXCEPT ![c] = IF r.red THEN SendState(r) ELSE h2o[c]]
          /\ web' = web /\ req[c].st = "ripe"
      BY <1>5, <2>3 DEF http_cancel_respond, FailedGen
    <3>2. r \in HReq /\ r.st = req[c].st /\ SendState(r) = "final"
      BY <1>0, FailedGenFields
    <3> HIDE DEF r
    <3>3. /\ req'[c].st = "ripe" /\ h2o'[c] \in {h2o[c], "body", "final"}
          /\ \A d \in Reqs \ {c} : req'[d] = req[d] /\ h2o'[d] = h2o[d]
      BY <1>0, <3>1, <3>2 DEF TypeOK, HReq, Sent
    <3> QED
      BY <1>3, <2>3, <3>1, <3>3
  <2> QED
    BY <2>1, <2>2, <2>3
<1> QED
  BY <1>2, <1>4, <1>5 DEF http_response, c

LEMMA WsResponseReport ==
    ASSUME TypeOK, PairInv, ReportInv, fault = "none", NEW e \in Effects,
           http_ws_response(e)
    PROVE  ReportInv'
<1>0. PICK c \in Reqs : \/ http_ws_accept(c) /\ PlanNothing
                        \/ http_ws_disconnect(c) /\ PlanNothing
                        \/ http_ws_send_message(c)
  BY DEF http_ws_response, http_ws_disconnect
<1>1. ReportOK(req[c], web[c], h2o[c], told[c])
  BY DEF ReportInv
<1>2. CASE http_ws_accept(c) /\ PlanNothing
  <2>0. /\ \A d \in Reqs \ {c} : /\ req'[d] = req[d] /\ web'[d] = web[d]
                                 /\ h2o'[d] = h2o[d]
        /\ told' = told /\ req'[c].st = "ripe" /\ req'[c].gen = req[c].gen
        /\ web[c].sat = "pending"
    <3>1. web[c].sat = "pending" /\ told' = told
      BY <1>2 DEF http_ws_accept, PlanNothing
    <3>2. \A d \in Reqs \ {c} : h2o'[d] = h2o[d]
      BY <1>2 DEF http_ws_accept, Answer, TypeOK
    <3>3. \/ /\ req' = [req EXCEPT ![c] = [req[c] EXCEPT !.st = "ripe",
                                                         !.tim = FALSE]]
             /\ web' = [web EXCEPT ![c] =
                          [web[c] EXCEPT !.sat = "open", !.req = FALSE,
                                         !.woc = "wait"]]
          \/ /\ req' = [req EXCEPT ![c] = Rejected(req[c])]
             /\ web' = [web EXCEPT ![c] = Freed(web[c])]
      BY <1>2 DEF http_ws_accept, TypeOK, Rejected
    <3> QED
      BY <3>1, <3>2, <3>3, ZenonT(60) DEF TypeOK, HReq, Rejected
  <2>1. CASE h2o[c] # "idle"
    <3>1. fault' # "none"
      BY <1>2, <2>1 DEF http_ws_accept, Answer
    <3> QED
      BY <3>1 DEF ReportInv
  <2>2. CASE h2o[c] = "idle"
    <3>1. \/ h2o'[c] = "upgrade" /\ web'[c].sat = "open"
          \/ h2o'[c] = "final" /\ web'[c].sat = "freed"
      <4>1. \/ /\ h2o' = [h2o EXCEPT ![c] = "upgrade"]
               /\ web' = [web EXCEPT ![c] =
                            [web[c] EXCEPT !.sat = "open", !.req = FALSE,
                                           !.woc = "wait"]]
            \/ /\ h2o' = [h2o EXCEPT ![c] = "final"]
               /\ web' = [web EXCEPT ![c] = Freed(web[c])]
        BY <1>2, <2>2 DEF http_ws_accept, Answer, TypeOK
      <4>2. [web[c] EXCEPT !.sat = "open", !.req = FALSE,
                           !.woc = "wait"].sat = "open"
        BY DEF TypeOK, HWs
      <4>3. Freed(web[c]).sat = "freed"
        BY DEF TypeOK, HWs, Freed
      <4> QED
        BY <4>1, <4>2, <4>3 DEF TypeOK
    <3>2. req[c].st = "plan"
      BY <1>1, <2>0, <2>2 DEF PairInv, SessionOK, ReportOK, Rsat
    <3>3. ReportOK(req[c], web[c], h2o[c], told[c])'
      BY <1>1, <2>0, <2>2, <3>1, <3>2 DEF ReportOK, Rsat
    <3> QED
      BY <2>0, <3>3, ReportElsewhere
  <2> QED
    BY <2>1, <2>2
<1>3. CASE http_ws_disconnect(c) /\ PlanNothing
  <2>1. CASE http_ws_reject(c)
    <3>1. /\ \A d \in Reqs \ {c} : /\ req'[d] = req[d] /\ web'[d] = web[d]
                                   /\ h2o'[d] = h2o[d]
          /\ told' = told /\ req'[c].st = "ripe" /\ web'[c].sat = "freed"
          /\ web[c].sat = "pending"
          /\ fault' = "none" => h2o'[c] = "final"
      BY <1>3, <2>1, ZenonT(60)
      DEF http_ws_reject, Answer, PlanNothing, TypeOK, HReq, HWs, Rejected, Freed
    <3>2. fault' = "none" => ReportOK(req[c], web[c], h2o[c], told[c])'
      BY <1>1, <3>1 DEF ReportOK
    <3> QED
      BY <3>1, <3>2, ReportElsewhere
  <2>2. CASE ~http_ws_reject(c)
    <3>1. /\ req' = req /\ h2o' = h2o /\ told' = told
          /\ web' = [web EXCEPT ![c] = Closing(web[c])]
          /\ web'[c].sat = "closing" /\ web[c].sat = "open"
      BY <1>3, <2>2 DEF http_ws_disconnect, PlanNothing, TypeOK, HWs, Closing
    <3>2. ReportOK(req[c], web[c], h2o[c], told[c])'
      BY <1>1, <3>1 DEF ReportOK
    <3> QED
      BY <3>1, <3>2, ReportElsewhere DEF TypeOK
  <2> QED
    BY <2>1, <2>2
<1>4. CASE http_ws_send_message(c)
  <2>1. req' = req /\ h2o' = h2o /\ web[c].sat = "open"
    BY <1>4 DEF http_ws_send_message
  <2>2. CASE UNCHANGED <<web, told>>
    <3>1. ReportOK(req[c], web[c], h2o[c], told[c])'
      BY <1>1, <2>1, <2>2
    <3> QED
      BY <2>1, <2>2, <3>1, ReportElsewhere
  <2>3. CASE Dropped(c)
    <3>1. req[c].st # "free"
      BY <2>1 DEF PairInv, RequestOK
    <3>2. ReportOK(req[c], web[c], h2o[c], told[c])'
      BY <1>1, <2>1, <2>3, <3>1, DroppedReport DEF ReportOK
    <3> QED
      BY <2>1, <2>3, <3>2, DroppedReport, ReportElsewhere
  <2> QED
    BY <1>4, <2>2, <2>3 DEF http_ws_send_message, PlanNothing
<1> QED
  BY <1>0, <1>2, <1>3, <1>4

LEMMA CloseAllReport ==
    ASSUME TypeOK, PairInv, ReportInv, fault = "none", http_ws_close_all,
           PlanNothing
    PROVE  ReportInv'
<1> SUFFICES ASSUME fault' = "none", NEW c \in Reqs
             PROVE  ReportOK(req[c], web[c], h2o[c], told[c])'
  BY DEF ReportInv
<1>1. ReportOK(req[c], web[c], h2o[c], told[c]) /\ told' = told
  BY DEF ReportInv, PlanNothing
<1>2. CASE web[c].sat = "pending"
  <2>1. req'[c] = Rejected(req[c]) /\ web'[c] = Freed(web[c])
    BY <1>2 DEF http_ws_close_all
  <2>2. h2o'[c] = "final"
    BY <1>2 DEF http_ws_close_all
  <2>3. req'[c].st = "ripe" /\ web'[c].sat = "freed"
    BY <2>1 DEF Rejected, Freed, TypeOK, HReq, HWs
  <2> QED
    BY <1>1, <2>2, <2>3 DEF ReportOK
<1>3. CASE web[c].sat = "open"
  <2>1. req'[c] = req[c] /\ web'[c] = Closing(web[c]) /\ h2o'[c] = h2o[c]
    BY <1>3 DEF http_ws_close_all
  <2>2. web'[c].sat = "closing"
    BY <2>1 DEF Closing, TypeOK, HWs
  <2> QED
    BY <1>1, <1>3, <2>1, <2>2 DEF ReportOK
<1>4. CASE web[c].sat \notin {"pending", "open"}
  <2>1. req'[c] = req[c] /\ web'[c] = web[c] /\ h2o'[c] = h2o[c]
    BY <1>4 DEF http_ws_close_all
  <2> QED
    BY <1>1, <2>1
<1> QED
  BY <1>2, <1>3, <1>4

LEMMA ReportKept ==
    ASSUME TypeOK, PairInv, ReportInv, [Next]_vars
    PROVE  ReportInv'
<1>1. CASE UNCHANGED vars
  BY <1>1 DEF vars, ReportInv
<1>2. CASE Next /\ \E c \in Reqs : http_rec_accept(c)
  BY <1>2, ArriveReport DEF Next
<1>3. CASE Next /\ \E c \in Reqs : Callback(c)
  BY <1>3, TimerReport, RequestCallbackReport, SocketCallbackReport
  DEF Next, Callback
<1>4. CASE Next /\ http_serv_close_cb
  BY <1>4, CloseAllReport DEF Next, http_serv_close_cb, http_serv_start_all
<1>5. ASSUME fault = "none", NEW e \in Effects, http_ef_http_server(e)
      PROVE  ReportInv'
  <2>1. CASE http_ws_close_all /\ PlanNothing
    BY <1>5, <2>1, CloseAllReport
  <2>2. CASE PlanNothing /\ UNCHANGED <<req, web, h2o>>
    BY <1>5, <2>2 DEF PlanNothing, ReportInv
  <2> QED
    BY <1>5, <2>1, <2>2, WsResponseReport, ResponseReport
    DEF http_ef_http_server, http_ef_form, http_serv_start_all
<1> QED
  BY <1>1, <1>2, <1>3, <1>4, <1>5 DEF Next

-----------------------------------------------------------------------------
(* What a step shows of itself to eyre, for the theorems of the composition. *)

\* An event about a request or a session that began before.
Reported(o) ==
    /\ o \in Ovum
    /\ \/ o.tag = "cancel-request"
       \/ /\ o.tag \in {"message", "disconnect"}
          /\ web[o.req].sat # "none" /\ o.wid = web[o.req].wid
          /\ o.tag = "message" => web[o.req].sat = "open"

\* At most one event, and the history knows of it.
Announced ==
    /\ \A o, p \in out' : o = p
    /\ \A o \in out' : o \in Ovum /\ o.tag \in told'[o.req]
    /\ \A c \in Reqs : told[c] \subseteq told'[c]

LEMMA PlanAnnounced ==
    ASSUME TypeOK, NEW c \in Reqs, NEW tag \in Tags,
           NEW wid \in 0 .. (WidMod - 1), Plan(tag, c, wid)
    PROVE  /\ Announced
           /\ out' = {[tag |-> tag, req |-> c, wid |-> wid]}
<1>1. [tag |-> tag, req |-> c, wid |-> wid] \in Ovum
  BY DEF Ovum
<1>2. told'[c] = told[c] \cup {tag} /\ \A d \in Reqs \ {c} : told'[d] = told[d]
  BY DEF Plan, TypeOK
<1> QED
  BY <1>1, <1>2 DEF Announced, Plan

LEMMA PlanNothingAnnounced ==
    ASSUME TypeOK, PlanNothing
    PROVE  Announced /\ out' = {}
BY DEF Announced, PlanNothing

LEMMA KillAnnounced ==
    ASSUME TypeOK, NEW c \in Reqs, NEW b, KillIf(b, c)
    PROVE  Announced /\ \A o \in out' : Reported(o)
<1>1. CASE Kill(c)
  <2>1. 0 \in 0 .. (WidMod - 1) /\ "cancel-request" \in Tags
    BY WidModAssumption DEF Tags
  <2>2. /\ Announced
        /\ out' = {[tag |-> "cancel-request", req |-> c, wid |-> 0]}
    BY <1>1, <2>1, PlanAnnounced DEF Kill
  <2> QED
    BY <2>2 DEF Announced, Reported
<1>2. CASE PlanNothing
  BY <1>2, PlanNothingAnnounced
<1> QED
  BY <1>1, <1>2 DEF KillIf

LEMMA DisconnectAnnounced ==
    ASSUME TypeOK, NEW c \in Reqs, web[c].sat # "none",
           NEW tag \in {"message", "disconnect"},
           tag = "message" => web[c].sat = "open",
           Plan(tag, c, web[c].wid)
    PROVE  Announced /\ \A o \in out' : Reported(o)
<1>1. web[c].wid \in 0 .. (WidMod - 1) /\ tag \in Tags
  BY DEF TypeOK, HWs, Tags
<1>2. /\ Announced
      /\ out' = {[tag |-> tag, req |-> c, wid |-> web[c].wid]}
  BY <1>1, PlanAnnounced
<1> QED
  BY <1>2 DEF Announced, Reported

LEMMA DroppedAnnounced ==
    ASSUME TypeOK, NEW c \in Reqs, web[c].sat # "none", Dropped(c)
    PROVE  Announced /\ \A o \in out' : Reported(o)
BY DisconnectAnnounced, PlanNothingAnnounced DEF Dropped

\* What libuv and libh2o's callbacks plan is about what they are called on.
LEMMA CallbackAnnounced ==
    ASSUME TypeOK, PairInv, NEW c \in Reqs, Callback(c)
    PROVE  Announced /\ \A o \in out' : Reported(o)
<1>1. /\ web[c].woc \in {"wait", "up", "shut"} => web[c].sat # "none"
      /\ web[c].woc = "up" => web[c].sat = "open"
  BY DEF PairInv, SessionOK
<1>2. CASE http_req_timer_cb(c)
  <2>1. \E b \in BOOLEAN : KillIf(b, c)
    BY <1>2 DEF http_req_timer_cb, http_timeout_planned, http_timeout_ripe,
                KillIf
  <2> QED
    BY <2>1, KillAnnounced
<1>3. CASE http_hgen_proceed(c)
  BY <1>3, PlanNothingAnnounced DEF http_hgen_proceed
<1>4. CASE http_req_done(c)
  BY <1>4, KillAnnounced DEF http_req_done
<1>5. CASE \E ok \in BOOLEAN : h2o_upgrade_complete(c, ok)
  <2>1. PlanNothing \/ (web[c].woc = "wait" /\ Dropped(c))
    BY <1>5 DEF h2o_upgrade_complete
  <2> QED
    BY <1>1, <2>1, PlanNothingAnnounced, DroppedAnnounced
<1>6. CASE http_ws_message(c)
  BY <1>1, <1>6, DisconnectAnnounced DEF http_ws_message
<1>7. CASE http_ws_close_frame(c)
  BY <1>1, <1>7, DisconnectAnnounced, PlanNothingAnnounced
  DEF http_ws_close_frame
<1>8. CASE http_ws_dropped(c)
  BY <1>1, <1>8, DroppedAnnounced DEF http_ws_dropped
<1> QED
  BY <1>2, <1>3, <1>4, <1>5, <1>6, <1>7, <1>8 DEF Callback

\* An effect plans at most that a session it could not write to has ended.
LEMMA EffectAnnounced ==
    ASSUME TypeOK, NEW e \in Effects,
           http_ef_http_server(e) \/ http_serv_close_cb
    PROVE  Announced /\ \A o \in out' : Reported(o)
<1>1. PlanNothing \/ \E c \in Reqs : web[c].sat = "open" /\ Dropped(c)
  BY DEF http_ef_http_server, http_serv_close_cb, http_ws_response,
         http_response, http_ws_send_message
<1> QED
  BY <1>1, PlanNothingAnnounced, DroppedAnnounced

\* An answer libh2o was given is never taken back.
LEMMA AnswersStay ==
    ASSUME TypeOK, NEW c \in Reqs, NEW e \in Effects,
           \/ Callback(c)
           \/ http_ef_http_server(e)
           \/ http_serv_close_cb
    PROVE  \A d \in Reqs : h2o'[d] = "idle" => h2o[d] = "idle"
<1>1. CASE Callback(c)
  <2>1. \/ h2o' = h2o
        \/ \E a \in {"final", "body"} : h2o' = [h2o EXCEPT ![c] = a]
    <3>1. CASE http_timeout_planned(c)
      BY <3>1 DEF http_timeout_planned, Answer
    <3>2. CASE http_timeout_ripe(c)
      BY <3>2 DEF http_timeout_ripe, SendState, TypeOK
    <3>3. CASE http_hgen_proceed(c)
      BY <3>3 DEF http_hgen_proceed, SendState, TypeOK
    <3> QED
      BY <1>1, <3>1, <3>2, <3>3
      DEF Callback, http_req_timer_cb, http_req_done, h2o_upgrade_complete,
          http_ws_message, http_ws_close_frame, http_ws_dropped
  <2> QED
    BY <2>1 DEF TypeOK
<1>2. CASE http_ws_response(e)
  <2>1. PICK d \in Reqs : \/ http_ws_accept(d)
                          \/ http_ws_disconnect(d)
                          \/ http_ws_send_message(d)
    BY <1>2 DEF http_ws_response, http_ws_disconnect
  <2>2. \/ h2o' = h2o
        \/ \E a \in {"final", "upgrade"} : h2o' = [h2o EXCEPT ![d] = a]
    BY <2>1 DEF http_ws_accept, http_ws_disconnect, http_ws_reject,
                http_ws_send_message, Answer
  <2> QED
    BY <2>2 DEF TypeOK
<1>3. CASE http_response(e)
  <2>1. e.req \in Reqs
    BY <1>3, EffectFields DEF http_response, Responses
  <2>2. \/ h2o' = h2o
        \/ \E a \in {"final", "body"} : h2o' = [h2o EXCEPT ![e.req] = a]
    <3>1. CASE http_start_respond(e.req, e.complete)
      BY <3>1 DEF http_start_respond, SendState
    <3>2. CASE http_continue_respond(e.req, e.data, e.complete)
      BY <2>1, <3>2, ZenonT(60) DEF http_continue_respond, SendState, TypeOK
    <3>3. CASE http_cancel_respond(e.req)
      BY <2>1, <3>3 DEF http_cancel_respond, SendState, Answer, TypeOK
    <3> QED
      BY <1>3, <3>1, <3>2, <3>3 DEF http_response
  <2> QED
    BY <2>1, <2>2 DEF TypeOK
<1>4. CASE http_ws_close_all
  BY <1>4 DEF http_ws_close_all
<1>5. CASE UNCHANGED h2o
  BY <1>5
<1> QED
  BY <1>1, <1>2, <1>3, <1>4, <1>5
  DEF http_ef_http_server, http_ef_form, http_serv_start_all,
      http_serv_close_cb

\* The end of a session that the kernel asks for is not dropped while the
\* session is there and can be found.
LEMMA EndHeeded ==
    ASSUME TypeOK, NEW e \in Effects, http_ef_http_server(e),
           e.tag \in {"reject", "disconnect"},
           NEW c \in Reqs, Found(c, e.wid),
           \A d \in Reqs : Found(d, e.wid) => d = c,
           web[c].sat \in Heeds(e.tag)
    PROVE  web'[c].sat \notin {"pending", "open"}
<1>1. ~Ignored(e)
  <2>1. e.tag \in WsResponses /\ e.tag \notin {"start", "continue", "cancel"}
    BY DEF WsResponses
  <2> QED
    BY <2>1, Zenon DEF Ignored
<1>2. http_ws_response(e)
  BY <1>1 DEF http_ef_http_server, http_response
<1>3. http_ws_disconnect(c)
  BY <1>2 DEF http_ws_response, http_ws_disconnect
<1>4. web' = [web EXCEPT ![c] = Freed(web[c])]
      \/ web' = [web EXCEPT ![c] = Closing(web[c])]
  BY <1>3 DEF http_ws_disconnect, http_ws_reject
<1> QED
  BY <1>4 DEF TypeOK, HWs, Freed, Closing

\* A session opens only with the first answer to its request.
LEMMA OpenedAnswers ==
    ASSUME TypeOK, NEW c \in Reqs, NEW e \in Effects, http_ef_http_server(e),
           Opened(web'[c], web[c]), fault = "none", fault' = "none"
    PROVE  h2o[c] = "idle"
<1>1. web[c] \in HWs
  BY DEF TypeOK
<1>2. web[c].sat = "pending" /\ web'[c].sat = "open"
  BY <1>1 DEF Opened, HWs
<1>3. CASE http_ws_response(e)
  <2>1. PICK d \in Reqs : \/ http_ws_accept(d)
                          \/ http_ws_disconnect(d)
                          \/ http_ws_send_message(d)
    BY <1>3 DEF http_ws_response, http_ws_disconnect
  <2>2. d = c
    BY <1>2, <2>1 DEF http_ws_accept, http_ws_disconnect, http_ws_reject,
                      http_ws_send_message, Dropped, TypeOK
  <2>3. CASE http_ws_accept(c)
    BY <2>3 DEF http_ws_accept, Answer
  <2>4. CASE http_ws_disconnect(c)
    BY <1>1, <1>2, <2>4, ZenonT(60)
    DEF http_ws_disconnect, http_ws_reject, Freed, HWs, TypeOK
  <2> QED
    BY <1>2, <2>1, <2>2, <2>3, <2>4 DEF http_ws_send_message
<1>4. CASE http_response(e)
  <2>1. \A d \in Reqs : web'[d] = web[d] \/ web'[d] = Freed(web[d])
    <3>1. e.req \in Reqs
      BY <1>4, EffectFields DEF http_response, Responses
    <3> QED
      BY <1>4, <3>1 DEF http_response, http_start_respond, TypeOK, Detached,
                        http_continue_respond, http_cancel_respond
  <2> QED
    BY <1>1, <1>2, <2>1 DEF Freed, HWs
<1>5. CASE http_ws_close_all
  <2>1. web'[c] = Freed(web[c])
    BY <1>2, <1>5 DEF http_ws_close_all
  <2> QED
    BY <1>1, <1>2, <2>1 DEF Freed, HWs
<1>6. CASE web' = web
  BY <1>2, <1>6
<1> QED
  BY <1>3, <1>4, <1>5, <1>6
  DEF http_ef_http_server, http_ef_form, http_serv_start_all

-----------------------------------------------------------------------------
(* The inductive invariant. *)

LEMMA EffectPair ==
    ASSUME TypeOK, TypeOK', PairInv, NEW e \in Effects, http_ef_http_server(e)
    PROVE  PairInv'
<1>1. CASE http_ws_response(e)
  <2>1. PICK c \in Reqs :
           \/ http_ws_accept(c) /\ PlanNothing
           \/ http_ws_disconnect(c) /\ PlanNothing
           \/ http_ws_send_message(c)
    BY <1>1 DEF http_ws_response, http_ws_disconnect
  <2> QED
    BY <2>1, AcceptPair, DisconnectPair, SendMessagePair
<1>2. CASE http_response(e)
  <2>1. e.req \in Reqs /\ e.complete \in BOOLEAN /\ e.data \in BOOLEAN
    BY <1>2, EffectFields DEF http_response, Responses
  <2> QED
    BY <1>2, <2>1, StartPair, ContinuePair, CancelPair DEF http_response
<1>3. CASE http_ws_close_all /\ PlanNothing
  BY <1>3, CloseAllPair
<1>4. CASE PlanNothing /\ UNCHANGED <<req, web, h2o>>
  BY <1>4 DEF PlanNothing, PairInv
<1> QED
  BY <1>1, <1>2, <1>3, <1>4
  DEF http_ef_http_server, http_ef_form, http_serv_start_all

LEMMA InitInv == Init => IInv
<1> SUFFICES ASSUME Init PROVE IInv
  OBVIOUS
<1>1. TypeOK
  <2>1. NoReq \in HReq /\ NoWeb \in HWs
    BY WidModAssumption DEF NoReq, NoWeb, HReq, HWs
  <2> QED
    BY <2>1, WidModAssumption DEF Init, TypeOK, H2o, Servs, Faults
<1>2. PairInv
  BY DEF Init, PairInv, RequestOK, SessionOK, NoReq, NoWeb, Rsat, Live
<1>3. CounterInv
  BY DEF Init, CounterInv, NoWeb
<1>4. ReportInv
  BY DEF Init, ReportInv, ReportOK, NoReq, NoWeb, Rsat
<1> QED
  BY <1>1, <1>2, <1>3, <1>4 DEF IInv

LEMMA NextInv == ASSUME IInv, [Next]_vars PROVE IInv'
<1>1. TypeOK /\ TypeOK' /\ PairInv /\ CounterInv /\ ReportInv'
  BY NextType, ReportKept DEF IInv
<1>2. CASE \E c \in Reqs : http_rec_accept(c)
  <2>1. PICK c \in Reqs : http_rec_accept(c)
    BY <1>2
  <2>2. PairInv'
    BY <1>1, <2>1, DispatchPair, BadHandshakePair, HandshakePair
    DEF http_rec_accept
  <2>3. CASE http_ws_handshake(c)
    <3>1. web[c].sat = "none"
      BY <1>1, <2>3 DEF PairInv, RequestOK, http_ws_handshake
    <3> QED
      BY <1>1, <2>2, <2>3, <3>1, HandshakeCounter DEF IInv
  <2>4. CASE UNCHANGED <<web, wid_l, births>>
    <3>1. SessionsKept
      BY <2>4 DEF SessionsKept
    <3> QED
      BY <1>1, <2>2, <2>4, <3>1, CounterKept DEF IInv
  <2> QED
    BY <2>1, <2>3, <2>4
    DEF http_rec_accept, http_req_dispatch, http_bad_handshake
<1>3. CASE \E c \in Reqs : Callback(c)
  <2>1. PICK c \in Reqs : Callback(c)
    BY <1>3
  <2>2. PairInv'
    BY <1>1, <2>1, TimeoutPlannedPair, TimeoutRipePair, ProceedPair, DonePair,
       UpgradePair, MessagePair, CloseFramePair, DroppedPair
    DEF Callback, http_req_timer_cb
  <2> QED
    BY <1>1, <2>1, <2>2, CallbackSessions, AgedCounter DEF IInv
<1>4. CASE \E e \in Effects : http_ef_http_server(e)
  BY <1>1, <1>4, EffectPair, EffectSessions, AgedCounter DEF IInv
<1>5. CASE http_serv_close_cb
  <2>1. [tag |-> "set-config"] \in Effects
    BY DEF Effects
  <2>2. PairInv'
    BY <1>1, <1>5, CloseAllPair DEF http_serv_close_cb, http_serv_start_all
  <2> QED
    BY <1>1, <1>5, <2>1, <2>2, EffectSessions, AgedCounter DEF IInv
<1>6. CASE UNCHANGED vars
  BY <1>1, <1>6 DEF IInv, PairInv, CounterInv, vars
<1> QED
  BY <1>2, <1>3, <1>4, <1>5, <1>6 DEF Next

\* Everything the four safety theorems need, kept by every handler.
THEOREM Inductive == Spec => []IInv
BY InitInv, NextInv, PTL DEF Spec

\* Whichever of libh2o, the timer, the kernel and a new configuration ends a
\* request or its session first, neither wsu_u nor req_u is left dangling, and
\* a pending session has a request libh2o still holds: the handlers that
\* follow the pointers without a check may.
THEOREM LinksAreSound == Spec => []LinksSound
<1>1. IInv => LinksSound
  BY DEF IInv, PairInv, SessionOK, LinksSound, Alive
<1> QED
  BY <1>1, Inductive, PTL

\* _http_hgen_send() is called only for a response that was started and whose
\* last piece libh2o has taken: its assertion on gen_u->red holds.
THEOREM ReadyIsBody == Spec => []ReadyMeansBody
<1>1. IInv => ReadyMeansBody
  BY DEF IInv, PairInv, RequestOK, ReadyMeansBody, Alive
<1> QED
  BY <1>1, Inductive, PTL

\* No session that was open goes away behind eyre's back, except one closed
\* from this side, which is never freed.
THEOREM EndsAreTold == Spec => []EndOfSessionTold
<1>1. IInv => EndOfSessionTold
  BY DEF IInv, PairInv, SessionOK, EndOfSessionTold
<1> QED
  BY <1>1, Inductive, PTL

\* _http_ws_find() finds one session at most until the 32-bit counter wraps.
THEOREM WidsAreUnique == Spec => []UniqueWids
<1>1. IInv => UniqueWids
  <2> SUFFICES ASSUME IInv, births < WidMod,
                      NEW c \in Reqs, NEW d \in Reqs,
                      web[c].sat \in Live, web[d].sat \in Live,
                      web[c].wid = web[d].wid
               PROVE  c = d
    BY DEF UniqueWids
  <2>0. web[c].sat # "none" /\ web[d].sat # "none"
    BY DEF Live
  <2>1. web[c].birth \in Nat /\ web[d].birth \in Nat
    BY DEF IInv, TypeOK, HWs
  <2>2. web[c].wid = web[c].birth + 1 /\ web[d].wid = web[d].birth + 1
    BY <2>0 DEF IInv, CounterInv
  <2> QED
    <3>1. web[c].birth + 1 = web[d].birth + 1
      BY <2>2, Zenon
    <3>2. web[c].birth = web[d].birth
      BY <2>1, <3>1
    <3> QED
      BY <2>0, <3>2 DEF IInv, CounterInv
<1> QED
  BY <1>1, Inductive, PTL

-----------------------------------------------------------------------------
(* What the kernel hears of sessions. *)

SessionTags == {"websocket-handshake", "message", "disconnect"}

LEMMA EventsNothing == ASSUME PlanNothing PROVE sessionEvents' = {}
BY DEF sessionEvents, PlanNothing

LEMMA EventsOne ==
    ASSUME NEW c \in Reqs, NEW tag \in SessionTags, NEW wid, Plan(tag, c, wid)
    PROVE  sessionEvents' = {<<c, tag>>}
<1> DEFINE o == [tag |-> tag, req |-> c, wid |-> wid]
<1>1. out' = {o}
  BY DEF Plan
<1>2. o.tag = tag /\ o.req = c
  OBVIOUS
<1> HIDE DEF o
<1>3. {p \in out' : p.tag \in SessionTags} = {o}
  BY <1>1, <1>2
<1>4. sessionEvents' = {<<q.req, q.tag>> : q \in {o}}
  BY <1>3 DEF sessionEvents, SessionTags
<1> QED
  BY <1>2, <1>4

LEMMA EventsOther ==
    ASSUME NEW c \in Reqs, NEW tag, tag \notin SessionTags, NEW wid,
           Plan(tag, c, wid)
    PROVE  sessionEvents' = {}
<1> DEFINE o == [tag |-> tag, req |-> c, wid |-> wid]
<1>1. out' = {o}
  BY DEF Plan
<1>2. o.tag = tag
  OBVIOUS
<1> HIDE DEF o
<1>3. {p \in out' : p.tag \in SessionTags} = {}
  BY <1>1, <1>2
<1> QED
  BY <1>3 DEF sessionEvents, SessionTags

-----------------------------------------------------------------------------
(* One lemma for each kind of step of a session. *)

Dead == {"closing", "closed", "freed"}

\* Some sessions end unreported, possibly none.
LEMMA EndStep ==
    ASSUME NEW S \in SUBSET Reqs, sessionEvents' = {},
           \A c \in S : /\ web[c].sat \in {"pending", "open"}
                        /\ web'[c].sat \in Dead,
           \A c \in Reqs \ S : \/ web'[c].sat = web[c].sat
                               \/ web[c].sat \in Dead /\ web'[c].sat \in Dead
    PROVE  Session!Next
<1>1. \A c \in S : sessionState[c] \in {"asked", "open"}
  BY DEF sessionState
<1>2. sessionState' = [c \in Reqs |-> IF c \in S THEN "over"
                                      ELSE sessionState[c]]
  BY DEF sessionState, Dead
<1>3. Session!End(S)
  BY <1>1, <1>2 DEF Session!End
<1> QED
  BY <1>3 DEF Session!Next

LEMMA QuietStep ==
    ASSUME sessionEvents' = {},
           \A c \in Reqs : \/ web'[c].sat = web[c].sat
                           \/ web[c].sat \in Dead /\ web'[c].sat \in Dead
    PROVE  Session!Next
BY EndStep

LEMMA EndOneStep ==
    ASSUME NEW c \in Reqs, sessionEvents' = {},
           web[c].sat \in {"pending", "open"}, web'[c].sat \in Dead,
           \A d \in Reqs \ {c} : web'[d] = web[d]
    PROVE  Session!Next
<1>1. {c} \in SUBSET Reqs
  OBVIOUS
<1> QED
  BY <1>1, EndStep

LEMMA AskStep ==
    ASSUME NEW c \in Reqs, sessionEvents' = {<<c, "websocket-handshake">>},
           web[c].sat = "none", web'[c].sat = "pending",
           \A d \in Reqs \ {c} : web'[d] = web[d]
    PROVE  Session!Next
<1>1. sessionState[c] = "idle"
  BY DEF sessionState
<1>2. sessionState' = [sessionState EXCEPT ![c] = "asked"]
  BY DEF sessionState
<1> QED
  BY <1>1, <1>2 DEF Session!Next, Session!Ask, Session!Step

LEMMA OpenStep ==
    ASSUME NEW c \in Reqs, sessionEvents' = {},
           web[c].sat = "pending", web'[c].sat = "open",
           \A d \in Reqs \ {c} : web'[d] = web[d]
    PROVE  Session!Next
<1>1. sessionState[c] = "asked"
  BY DEF sessionState
<1>2. sessionState' = [sessionState EXCEPT ![c] = "open"]
  BY DEF sessionState
<1> QED
  BY <1>1, <1>2 DEF Session!Next, Session!Open

LEMMA FrameStep ==
    ASSUME NEW c \in Reqs, sessionEvents' = {<<c, "message">>},
           web[c].sat = "open", web' = web
    PROVE  Session!Next
<1>1. sessionState[c] = "open"
  BY DEF sessionState
<1>2. sessionState' = [sessionState EXCEPT ![c] = "open"]
  BY DEF sessionState
<1> QED
  BY <1>1, <1>2 DEF Session!Next, Session!Frame, Session!Step

LEMMA PeerEndsStep ==
    ASSUME NEW c \in Reqs, sessionEvents' = {<<c, "disconnect">>},
           web[c].sat = "open", web'[c].sat \in Dead,
           \A d \in Reqs \ {c} : web'[d] = web[d]
    PROVE  Session!Next
<1>1. sessionState[c] = "open"
  BY DEF sessionState
<1>2. sessionState' = [sessionState EXCEPT ![c] = "over"]
  BY DEF sessionState, Dead
<1> QED
  BY <1>1, <1>2 DEF Session!Next, Session!PeerEnds, Session!Step

-----------------------------------------------------------------------------
(* Every handler is one of these steps. *)

LEMMA DroppedStep ==
    ASSUME TypeOK, PairInv, NEW c \in Reqs,
           web[c].woc \in {"wait", "up", "shut"}, Dropped(c)
    PROVE  Session!Next
<1>1. /\ web'[c].sat = "freed"
      /\ \A d \in Reqs \ {c} : web'[d] = web[d]
  BY DEF Dropped, Freed, TypeOK, HWs
<1>2. CASE web[c].sat = "open"
  <2>1. Plan("disconnect", c, web[c].wid)
    BY <1>2 DEF Dropped
  <2> QED
    BY <1>1, <1>2, <2>1, EventsOne, PeerEndsStep DEF SessionTags, Dead
<1>3. CASE web[c].sat = "closed"
  <2>1. PlanNothing
    BY <1>3 DEF Dropped
  <2> QED
    BY <1>1, <1>3, <2>1, EventsNothing, QuietStep DEF Dead
<1> QED
  BY <1>2, <1>3 DEF PairInv, SessionOK

LEMMA AcceptRecStep ==
    ASSUME TypeOK, PairInv, NEW c \in Reqs, http_rec_accept(c)
    PROVE  Session!Next
<1>1. CASE http_req_dispatch(c)
  BY <1>1, EventsOther, QuietStep DEF http_req_dispatch, SessionTags
<1>2. CASE http_bad_handshake(c)
  BY <1>2, EventsNothing, QuietStep DEF http_bad_handshake
<1>3. CASE http_ws_handshake(c)
  <2>1. web[c].sat = "none"
    BY <1>3 DEF http_ws_handshake, PairInv, RequestOK
  <2>2. /\ web'[c].sat = "pending"
        /\ \A d \in Reqs \ {c} : web'[d] = web[d]
    BY <1>3 DEF http_ws_handshake, TypeOK
  <2>3. sessionEvents' = {<<c, "websocket-handshake">>}
    BY <1>3, EventsOne DEF http_ws_handshake, SessionTags
  <2> QED
    BY <2>1, <2>2, <2>3, AskStep
<1> QED
  BY <1>1, <1>2, <1>3 DEF http_rec_accept

LEMMA KillEvents ==
    ASSUME NEW c \in Reqs, NEW b, KillIf(b, c) PROVE sessionEvents' = {}
BY EventsOther, EventsNothing DEF KillIf, Kill, SessionTags

LEMMA DetachedStep ==
    ASSUME TypeOK, PairInv, NEW c \in Reqs, sessionEvents' = {},
           web' = [web EXCEPT ![c] = Detached(c)]
    PROVE  Session!Next
<1>1. CASE req[c].wsu /\ web[c].req
  <2>1. web[c].sat = "pending"
    BY <1>1 DEF PairInv, SessionOK
  <2>2. web'[c].sat = "freed" /\ \A d \in Reqs \ {c} : web'[d] = web[d]
    BY <1>1 DEF Detached, Freed, TypeOK, HWs
  <2> QED
    BY <2>1, <2>2, EndOneStep DEF Dead
<1>2. CASE ~(req[c].wsu /\ web[c].req)
  BY <1>2, QuietStep DEF Detached, TypeOK
<1> QED
  BY <1>1, <1>2

LEMMA CallbackStep ==
    ASSUME TypeOK, PairInv, NEW c \in Reqs, Callback(c)
    PROVE  Session!Next
<1>1. CASE http_req_timer_cb(c)
  <2>1. web' = web
    BY <1>1 DEF http_req_timer_cb, http_timeout_planned, http_timeout_ripe
  <2>2. sessionEvents' = {}
    BY <1>1, KillEvents, EventsNothing, EventsOther
    DEF http_req_timer_cb, http_timeout_planned, http_timeout_ripe, Kill,
        SessionTags
  <2> QED
    BY <2>1, <2>2, QuietStep
<1>2. CASE http_hgen_proceed(c)
  BY <1>2, EventsNothing, QuietStep DEF http_hgen_proceed
<1>3. CASE http_req_done(c)
  BY <1>3, KillEvents, DetachedStep DEF http_req_done
<1>4. ASSUME NEW ok \in BOOLEAN, h2o_upgrade_complete(c, ok)
      PROVE  Session!Next
  <2>1. CASE web[c].woc = "wait" /\ Dropped(c)
    BY <2>1, DroppedStep
  <2>2. CASE web' = [web EXCEPT ![c].woc = "up"] /\ PlanNothing
    <3>1. \A d \in Reqs : web'[d].sat = web[d].sat
      BY <2>2 DEF TypeOK, HWs
    <3> QED
      BY <2>2, <3>1, EventsNothing, QuietStep
  <2>3. CASE web' = web /\ PlanNothing
    BY <2>3, EventsNothing, QuietStep
  <2> QED
    BY <1>4, <2>1, <2>2, <2>3 DEF h2o_upgrade_complete
<1>5. CASE http_ws_message(c)
  <2>1. web[c].sat = "open" /\ web' = web
    BY <1>5 DEF http_ws_message, PairInv, SessionOK
  <2>2. sessionEvents' = {<<c, "message">>}
    BY <1>5, EventsOne DEF http_ws_message, SessionTags
  <2> QED
    BY <2>1, <2>2, FrameStep
<1>6. CASE http_ws_close_frame(c)
  <2>1. web[c].sat = "open"
    BY <1>6 DEF http_ws_close_frame, PairInv, SessionOK
  <2>2. web'[c].sat = "closed" /\ \A d \in Reqs \ {c} : web'[d] = web[d]
    BY <1>6 DEF http_ws_close_frame, TypeOK, HWs
  <2>3. sessionEvents' = {<<c, "disconnect">>}
    BY <1>6, <2>1, EventsOne DEF http_ws_close_frame, SessionTags
  <2> QED
    BY <2>1, <2>2, <2>3, PeerEndsStep DEF Dead
<1>7. CASE http_ws_dropped(c)
  BY <1>7, DroppedStep DEF http_ws_dropped
<1> QED
  BY <1>1, <1>2, <1>3, <1>4, <1>5, <1>6, <1>7 DEF Callback

LEMMA WsResponseStep ==
    ASSUME TypeOK, PairInv, NEW c \in Reqs,
           \/ http_ws_accept(c) /\ PlanNothing
           \/ http_ws_disconnect(c) /\ PlanNothing
           \/ http_ws_send_message(c)
    PROVE  Session!Next
<1>1. CASE http_ws_accept(c) /\ PlanNothing
  <2>1. web[c].sat = "pending"
    BY <1>1 DEF http_ws_accept
  <2>2. /\ web'[c].sat \in {"open", "freed"}
        /\ \A d \in Reqs \ {c} : web'[d] = web[d]
    <3> DEFINE open == [web[c] EXCEPT !.sat = "open", !.req = FALSE,
                                      !.woc = "wait"]
    <3>1. open.sat = "open" /\ Freed(web[c]).sat = "freed"
      BY DEF Freed, TypeOK, HWs
    <3>2. \/ web' = [web EXCEPT ![c] = open]
          \/ web' = [web EXCEPT ![c] = Freed(web[c])]
      BY <1>1 DEF http_ws_accept, TypeOK
    <3> HIDE DEF open
    <3> QED
      BY <3>1, <3>2 DEF TypeOK
  <2> QED
    BY <1>1, <2>1, <2>2, EventsNothing, OpenStep, EndOneStep DEF Dead
<1>2. CASE http_ws_disconnect(c) /\ PlanNothing
  <2> DEFINE freed   == Freed(web[c])
             closing == Closing(web[c])
  <2>0. web[c] \in HWs
    BY DEF TypeOK
  <2>3. freed.sat \in Dead /\ closing.sat \in Dead
    BY <2>0 DEF Freed, Closing, HWs, Dead
  <2>4. /\ web[c].sat \in {"pending", "open"}
        /\ \/ web' = [web EXCEPT ![c] = freed]
           \/ web' = [web EXCEPT ![c] = closing]
    BY <1>2 DEF http_ws_disconnect, http_ws_reject
  <2> HIDE DEF freed, closing
  <2>1. /\ web[c].sat \in {"pending", "open"}
        /\ web'[c].sat \in Dead
        /\ \A d \in Reqs \ {c} : web'[d] = web[d]
    BY <2>3, <2>4 DEF TypeOK
  <2> QED
    BY <1>2, <2>1, EventsNothing, EndOneStep
<1>3. CASE http_ws_send_message(c)
  BY <1>3, DroppedStep, EventsNothing, QuietStep DEF http_ws_send_message
<1> QED
  BY <1>1, <1>2, <1>3

LEMMA CloseAllStep ==
    ASSUME TypeOK, PairInv, http_ws_close_all, PlanNothing
    PROVE  Session!Next
<1> DEFINE S == {c \in Reqs : web[c].sat \in {"pending", "open"}}
<1>1. \A c \in S : web'[c].sat \in Dead
  BY DEF http_ws_close_all, Freed, Closing, TypeOK, HWs, Dead
<1>2. \A c \in Reqs \ S : web'[c] = web[c]
  BY DEF http_ws_close_all
<1> QED
  BY <1>1, <1>2, EventsNothing, EndStep

LEMMA EffectStep ==
    ASSUME TypeOK, PairInv, NEW e \in Effects, http_ef_http_server(e)
    PROVE  Session!Next
<1>1. CASE http_ws_response(e)
  <2>1. PICK c \in Reqs :
           \/ http_ws_accept(c) /\ PlanNothing
           \/ http_ws_disconnect(c) /\ PlanNothing
           \/ http_ws_send_message(c)
    BY <1>1 DEF http_ws_response, http_ws_disconnect
  <2> QED
    BY <2>1, WsResponseStep
<1>2. CASE http_response(e)
  <2>1. e.req \in Reqs
    BY <1>2, EffectFields DEF http_response, Responses
  <2>2. sessionEvents' = {}
    BY <1>2, EventsNothing DEF http_response
  <2>3. web' = web \/ web' = [web EXCEPT ![e.req] = Detached(e.req)]
    BY <1>2 DEF http_response, http_start_respond, http_continue_respond,
                http_cancel_respond
  <2> QED
    BY <2>1, <2>2, <2>3, DetachedStep, QuietStep
<1>3. CASE http_ws_close_all /\ PlanNothing
  BY <1>3, CloseAllStep
<1>4. CASE PlanNothing /\ UNCHANGED <<req, web, h2o>>
  BY <1>4, EventsNothing, QuietStep
<1> QED
  BY <1>1, <1>2, <1>3, <1>4
  DEF http_ef_http_server, http_ef_form, http_serv_start_all

\* Under any kernel, and in any order of effects, timeouts and libh2o's
\* callbacks, a websocket session of the driver is a session as WsSession
\* describes it: frames reach eyre only while it is open, its end is reported
\* once and last.
THEOREM SessionImplemented == Spec => ImplementsSession
<1>1. Init => Session!Init
  BY DEF Init, Session!Init, sessionState, sessionEvents, NoWeb
<1>2. IInv /\ [Next]_vars => [Session!Next]_(Session!vars)
  <2> SUFFICES ASSUME IInv, [Next]_vars
               PROVE  Session!Next \/ UNCHANGED Session!vars
    OBVIOUS
  <2>1. TypeOK /\ PairInv
    BY DEF IInv
  <2>2. CASE UNCHANGED vars
    BY <2>2 DEF vars, Session!vars, sessionState, sessionEvents
  <2>3. CASE http_serv_close_cb
    BY <2>1, <2>3, CloseAllStep DEF http_serv_close_cb, http_serv_start_all
  <2> QED
    BY <2>1, <2>2, <2>3, AcceptRecStep, CallbackStep, EffectStep DEF Next
<1> QED
  BY <1>1, <1>2, Inductive, PTL DEF Spec, Session!Spec, ImplementsSession

-----------------------------------------------------------------------------
(* The final piece of a response. *)

LEMMA FinalKept ==
    ASSUME TypeOK, PairInv, NEW c \in Reqs, h2o[c] = "final", [Next]_vars
    PROVE  h2o'[c] = "final"
<1>1. CASE \E d \in Reqs : http_rec_accept(d)
  BY <1>1 DEF http_rec_accept, http_req_dispatch, http_bad_handshake,
              http_ws_handshake, TypeOK
<1>2. ASSUME NEW d \in Reqs, Callback(d)
      PROVE  h2o'[c] = "final"
  <2>1. CASE http_timeout_planned(d)
    BY <2>1 DEF http_timeout_planned, Answer, TypeOK
  <2>2. CASE http_timeout_ripe(d)
    <3>1. CASE UNCHANGED h2o
      BY <3>1
    <3>2. CASE h2o' = [h2o EXCEPT ![d] = IF FailedGen(d).red
                                           THEN SendState(FailedGen(d))
                                           ELSE h2o[d]]
      <4>1. h2o' = [h2o EXCEPT ![d] = IF FailedGen(d).red THEN "final" ELSE h2o[d]]
        BY <3>2, FailedGenFields
      <4> QED
        BY <4>1 DEF TypeOK
    <3> QED
      BY <2>2, <3>1, <3>2 DEF http_timeout_ripe, FailedGen
  <2>3. CASE http_hgen_proceed(d)
    BY <2>3 DEF http_hgen_proceed, TypeOK
  <2>4. CASE ~http_req_timer_cb(d) /\ ~http_hgen_proceed(d)
    BY <1>2, <2>4 DEF Callback, http_req_done, h2o_upgrade_complete, TypeOK,
                      http_ws_message, http_ws_close_frame, http_ws_dropped
  <2> QED
    BY <2>1, <2>2, <2>3, <2>4 DEF http_req_timer_cb
<1>3. ASSUME NEW e \in Effects, http_ef_http_server(e)
      PROVE  h2o'[c] = "final"
  <2>1. CASE http_ws_response(e)
    <3>1. PICK d \in Reqs :
             \/ http_ws_accept(d)
             \/ http_ws_disconnect(d)
             \/ http_ws_send_message(d)
      BY <2>1 DEF http_ws_response, http_ws_disconnect
    <3> QED
      BY <3>1 DEF http_ws_accept, http_ws_disconnect, http_ws_reject,
                  http_ws_send_message, Answer, TypeOK
  <2>2. CASE http_response(e)
    <3>1. /\ e.req \in Reqs
          /\ e.complete \in BOOLEAN /\ e.data \in BOOLEAN
      BY <2>2, EffectFields DEF http_response, Responses
    <3>2. CASE http_start_respond(e.req, e.complete)
      BY <3>1, <3>2 DEF http_start_respond, PairInv, RequestOK, TypeOK
    <3>3. CASE http_continue_respond(e.req, e.data, e.complete)
      <4>1. ~req[e.req].red \/ h2o[e.req] = "body"
        BY <3>1, <3>3 DEF http_continue_respond, PairInv, RequestOK, Alive
      <4>2. \/ h2o' = h2o
            \/ /\ req[e.req].red
               /\ \E a : h2o' = [h2o EXCEPT ![e.req] = a]
            \/ h2o' = [h2o EXCEPT ![e.req] = h2o[e.req]]
        <5> DEFINE r == [req[e.req] EXCEPT
                           !.tim = FALSE, !.bod = @ \/ e.data,
                           !.gen = IF e.complete THEN "done" ELSE "wait"]
        <5>1. r.red = req[e.req].red
          BY <3>1 DEF TypeOK, HReq
        <5>2. \/ h2o' = h2o
              \/ h2o' = [h2o EXCEPT ![e.req] =
                           IF r.red THEN SendState(r) ELSE @]
          BY <3>3, Zenon DEF http_continue_respond
        <5> HIDE DEF r
        <5> QED
          BY <5>1, <5>2
      <4> QED
        BY <3>1, <4>1, <4>2 DEF TypeOK
    <3>4. CASE http_cancel_respond(e.req)
      <4> DEFINE d == e.req
      <4>1. CASE h2o' = [h2o EXCEPT ![d] = "final"]
        BY <3>1, <4>1 DEF TypeOK
      <4>2. CASE UNCHANGED h2o
        BY <4>2
      <4>3. CASE h2o' = [h2o EXCEPT ![d] = IF FailedGen(d).red
                                             THEN SendState(FailedGen(d))
                                             ELSE h2o[d]]
        <5>1. h2o' = [h2o EXCEPT ![d] = IF FailedGen(d).red THEN "final"
                                                            ELSE h2o[d]]
          BY <3>1, <4>3, FailedGenFields
        <5> QED
          BY <3>1, <5>1 DEF TypeOK
      <4> QED
        BY <3>1, <3>4, <4>1, <4>2, <4>3
        DEF http_cancel_respond, Answer, FailedGen, PairInv, RequestOK, TypeOK
    <3> QED
      BY <2>2, <3>2, <3>3, <3>4 DEF http_response
  <2>3. CASE http_ws_close_all
    BY <2>3 DEF http_ws_close_all
  <2>4. CASE UNCHANGED h2o
    BY <2>4
  <2> QED
    BY <1>3, <2>1, <2>2, <2>3, <2>4
    DEF http_ef_http_server, http_ef_form, http_serv_start_all
<1>4. CASE UNCHANGED vars
  BY <1>4 DEF vars
<1>5. CASE http_serv_close_cb
  BY <1>5 DEF http_serv_close_cb, http_serv_start_all, http_ws_close_all
<1> QED
  BY <1>1, <1>2, <1>3, <1>4, <1>5 DEF Next

\* No order of timeouts, %continue and %cancel effects and proceed callbacks
\* makes the driver send libh2o a piece of a response after its final one.
THEOREM FinalStays == Spec => FinalIsFinal
<1>1. IInv /\ [Next]_vars
        => [\A c \in Reqs : h2o[c] = "final" => h2o'[c] = "final"]_vars
  BY FinalKept DEF IInv
<1> QED
  BY <1>1, Inductive, PTL DEF Spec, FinalIsFinal

=============================================================================
