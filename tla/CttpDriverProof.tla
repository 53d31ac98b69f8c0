-------------------------- MODULE CttpDriverProof ---------------------------
(***************************************************************************)
(* Theorems of CttpDriver for every set of attempts and every bound on the *)
(* numbers the kernel gives out.                                           *)
(***************************************************************************)
EXTENDS CttpDriver, TLAPS

\* What holds of one attempt between handlers: its pointers, and the callback
\* a request that is resolved still has coming.
PairOK(r, s, n) ==
    /\ r.wsu => r.st \in {"addr", "ripe"} /\ s.ceq
    /\ s.ceq => s.sat = "pending"
    /\ s.sat = "pending" => r.wsu
    /\ s.sat \in {"open", "closing"} => r.st = "freed"
    /\ r.st = "none" => s.sat = "none"
    /\ r.st \in {"addr", "quit"} => n = "addr"

\* What iris has had of one request, q if a %cancel-request found it.
ToldOK(r, s, t, q) ==
    /\ s.sat = "none"
    /\ r.st # "freed" => "receive" \notin t /\ (q <=> r.st = "quit")
    /\ r.st = "freed" => ("receive" \in t <=> ~q)

\* The request of a handshake has its session as long as it is linked.
WsOK(r) == r.st \in {"addr", "quit", "ripe"} => r.wsu

AttemptOK(c) ==
    /\ PairOK(creq[c], cws[c], net[c])
    /\ c \in PlainReqs => ToldOK(creq[c], cws[c], told[c], c \in quits)
    /\ c \in WsReqs => WsOK(creq[c])

IInv == /\ TypeOK
        /\ \A c \in Reqs : AttemptOK(c)

-----------------------------------------------------------------------------
(* Steps of one attempt. *)

Untouched(d) ==
    /\ creq'[d] = creq[d] /\ cws'[d] = cws[d] /\ net'[d] = net[d]
    /\ told'[d] = told[d] /\ (d \in quits' <=> d \in quits)

LEMMA OneAttempt ==
    ASSUME IInv, TypeOK', NEW c \in Reqs, AttemptOK(c)',
           \A d \in Reqs \ {c} : Untouched(d)
    PROVE  IInv'
<1>1. ASSUME NEW d \in Reqs \ {c} PROVE AttemptOK(d)'
  BY <1>1 DEF IInv, AttemptOK, Untouched
<1> QED
  BY <1>1 DEF IInv

LEMMA PlanType ==
    ASSUME TypeOK, NEW c \in Reqs, NEW tag \in Tags, NEW id \in Ids,
           Plan(tag, c, id)
    PROVE  /\ out' \in SUBSET Ovum /\ told' \in [Reqs -> SUBSET Tags]
           /\ told'[c] = told[c] \cup {tag}
           /\ \A d \in Reqs \ {c} : told'[d] = told[d]
<1>1. [tag |-> tag, req |-> c, id |-> id] \in Ovum
  BY DEF Ovum
<1>2. /\ told' \in [Reqs -> SUBSET Tags]
      /\ told'[c] = told[c] \cup {tag}
      /\ \A d \in Reqs \ {c} : told'[d] = told[d]
  BY DEF TypeOK, Plan
<1> QED
  BY <1>1, <1>2 DEF Plan

LEMMA PlanNothingType ==
    ASSUME TypeOK, PlanNothing
    PROVE  out' \in SUBSET Ovum /\ told' \in [Reqs -> SUBSET Tags]
BY DEF TypeOK, PlanNothing

\* A failed attempt: a request is answered, a handshake rejected.
LEMMA FailedType ==
    ASSUME TypeOK, NEW c \in Reqs, NEW id \in Ids, NEW ws \in BOOLEAN,
           Failed(c, id, ws)
    PROVE  /\ out' \in SUBSET Ovum /\ told' \in [Reqs -> SUBSET Tags]
           /\ told'[c] = told[c] \cup {IF ws THEN "reject" ELSE "receive"}
           /\ cws' \in [Reqs -> CWs]
           /\ cws'[c] = IF ws THEN FreedWs ELSE cws[c]
           /\ \A d \in Reqs \ {c} : told'[d] = told[d] /\ cws'[d] = cws[d]
<1>1. CASE ws
  <2>1. Plan("reject", c, id) /\ cws' = [cws EXCEPT ![c] = FreedWs]
    BY <1>1 DEF Failed
  <2>2. FreedWs \in CWs
    BY DEF FreedWs, CWs
  <2> QED
    BY <1>1, <2>1, <2>2, PlanType DEF TypeOK, Tags
<1>2. CASE ~ws
  <2>1. Plan("receive", c, id) /\ cws' = [cws EXCEPT ![c] = cws[c]]
    BY <1>2 DEF Failed
  <2> QED
    BY <1>2, <2>1, PlanType DEF TypeOK, Tags
<1> QED
  BY <1>1, <1>2

\* The request of a new attempt.
LEMMA NewReqType ==
    ASSUME NEW id \in Ids, NEW ws \in BOOLEAN, births \in Nat,
           NEW st \in {"addr", "ripe"}
    PROVE  LET r == [st |-> st, num |-> id, wsu |-> ws, birth |-> births]
           IN  r \in CReq /\ r.st = st /\ r.wsu = ws
BY DEF CReq

LEMMA FreedReqType ==
    ASSUME NEW r \in CReq
    PROVE  /\ FreedReq(r) \in CReq
           /\ FreedReq(r).st = "freed" /\ ~FreedReq(r).wsu
BY DEF FreedReq, CReq

\* Plain requests are no handshakes.
LEMMA PlainHasNoSession ==
    ASSUME IInv, NEW c \in PlainReqs
    PROVE  ~creq[c].wsu /\ ~cws[c].ceq /\ cws[c].sat = "none"
BY DEF IInv, AttemptOK, PairOK, ToldOK, Reqs

LEMMA FinishedInv ==
    ASSUME IInv, NEW c \in Reqs, creq[c].st \in {"addr", "ripe"},
           Finished(c), UNCHANGED <<births, quits>>
    PROVE  IInv'
<1>1. creq[c] \in CReq /\ creq[c].num \in Ids /\ creq[c].wsu \in BOOLEAN
  BY DEF IInv, TypeOK, CReq
<1>2. /\ creq' = [creq EXCEPT ![c] = FreedReq(creq[c])]
      /\ net' = [net EXCEPT ![c] = "none"]
      /\ Failed(c, creq[c].num, creq[c].wsu)
  BY DEF Finished
<1>3. /\ out' \in SUBSET Ovum /\ told' \in [Reqs -> SUBSET Tags]
      /\ told'[c] = told[c] \cup {IF creq[c].wsu THEN "reject" ELSE "receive"}
      /\ cws' \in [Reqs -> CWs]
      /\ cws'[c] = IF creq[c].wsu THEN FreedWs ELSE cws[c]
      /\ \A d \in Reqs \ {c} : told'[d] = told[d] /\ cws'[d] = cws[d]
  BY <1>1, <1>2, FailedType DEF IInv
<1>4. TypeOK'
  <2>1. creq' \in [Reqs -> CReq] /\ net' \in [Reqs -> Net]
    BY <1>1, <1>2, FreedReqType DEF IInv, TypeOK, Net
  <2>2. UNCHANGED <<births, quits, fault>>
    BY DEF Finished
  <2> QED
    BY <1>3, <2>1, <2>2 DEF IInv, TypeOK
<1>5. /\ creq'[c].st = "freed" /\ ~creq'[c].wsu
      /\ net'[c] = "none"
      /\ \A d \in Reqs \ {c} : Untouched(d)
  BY <1>1, <1>2, <1>3, FreedReqType DEF IInv, TypeOK, Untouched
<1>6. PairOK(creq'[c], cws'[c], net'[c])
  BY <1>3, <1>5 DEF IInv, AttemptOK, PairOK, FreedWs
<1>7. c \in PlainReqs => ToldOK(creq'[c], cws'[c], told'[c], c \in quits')
  BY <1>3, <1>5, PlainHasNoSession DEF IInv, AttemptOK, ToldOK
<1> QED
  BY <1>4, <1>5, <1>6, <1>7, OneAttempt DEF AttemptOK, WsOK

\* A request is freed and iris is not told.
LEMMA FreedSilentlyInv ==
    ASSUME IInv, NEW c \in Reqs, NEW n \in Net, ~creq[c].wsu,
           creq' = [creq EXCEPT ![c] = FreedReq(@)],
           net' = [net EXCEPT ![c] = n], PlanNothing,
           UNCHANGED <<cws, births, fault>>,
           "receive" \notin told[c] \/ c \notin PlainReqs,
           quits' = quits \cup {c}
    PROVE  IInv'
<1>1. creq[c] \in CReq
  BY DEF IInv, TypeOK
<1>2. TypeOK'
  BY <1>1, FreedReqType, PlanNothingType DEF IInv, TypeOK
<1>3. /\ creq'[c].st = "freed" /\ ~creq'[c].wsu
      /\ told' = told
      /\ \A d \in Reqs \ {c} : Untouched(d)
  BY <1>1, FreedReqType DEF IInv, TypeOK, Untouched, PlanNothing
<1>4. PairOK(creq'[c], cws'[c], net'[c])
  BY <1>3 DEF IInv, AttemptOK, PairOK
<1>5. c \in PlainReqs => ToldOK(creq'[c], cws'[c], told'[c], c \in quits')
  BY <1>3, PlainHasNoSession DEF ToldOK
<1> QED
  BY <1>2, <1>3, <1>4, <1>5, OneAttempt DEF AttemptOK, WsOK

\* Only libuv or libh2o goes on.
LEMMA WaitsInv ==
    ASSUME IInv, NEW c \in Reqs, NEW n \in Net, creq[c].st = "ripe",
           net' = [net EXCEPT ![c] = n], PlanNothing,
           UNCHANGED <<creq, cws, births, quits, fault>>
    PROVE  IInv'
<1>1. TypeOK'
  BY PlanNothingType DEF IInv, TypeOK
<1>2. AttemptOK(c)'
  BY DEF IInv, TypeOK, AttemptOK, PairOK, PlanNothing
<1>3. \A d \in Reqs \ {c} : Untouched(d)
  BY DEF IInv, TypeOK, Untouched, PlanNothing
<1> QED
  BY <1>1, <1>2, <1>3, OneAttempt

LEMMA DanglingInv ==
    ASSUME IInv, NEW c \in Reqs, Dangling(c), UNCHANGED <<births, quits>>
    PROVE  IInv'
<1>1. TypeOK'
  BY PlanNothingType DEF IInv, TypeOK, Dangling, Faults
<1> QED
  BY <1>1 DEF IInv, Dangling, AttemptOK, PlanNothing

-----------------------------------------------------------------------------
(* Every handler keeps the invariant. *)

\* A new attempt, in any of the states it may start in.
LEMMA StartInv ==
    ASSUME IInv, NEW c \in Reqs, NEW r \in CReq, NEW s \in CWs, NEW n \in Net,
           creq[c].st = "none",
           creq' = [creq EXCEPT ![c] = r], cws' = [cws EXCEPT ![c] = s],
           net' = [net EXCEPT ![c] = n], births' = births + 1,
           UNCHANGED <<quits, fault>>,
           out' \in SUBSET Ovum, told' \in [Reqs -> SUBSET Tags],
           \A d \in Reqs \ {c} : told'[d] = told[d],
           r.st # "quit", PairOK(r, s, n), c \in WsReqs => WsOK(r),
           c \in PlainReqs =>
             /\ s.sat = "none"
             /\ r.st = "freed" <=> "receive" \in told'[c]
    PROVE  IInv'
<1>1. TypeOK'
  <2>1. creq' \in [Reqs -> CReq] /\ cws' \in [Reqs -> CWs]
        /\ net' \in [Reqs -> Net]
    BY DEF IInv, TypeOK
  <2>2. births' \in Nat
    BY DEF IInv, TypeOK
  <2> QED
    BY <2>1, <2>2 DEF IInv, TypeOK
<1>2. \A d \in Reqs \ {c} : Untouched(d)
  BY DEF IInv, TypeOK, Untouched
<1>3. c \in PlainReqs => c \notin quits
  BY DEF IInv, AttemptOK, ToldOK
<1>4. AttemptOK(c)'
  BY <1>3 DEF IInv, TypeOK, AttemptOK, ToldOK
<1> QED
  BY <1>1, <1>2, <1>4, OneAttempt

LEMMA CreqStartInv ==
    ASSUME IInv, NEW c \in Reqs, NEW id \in Ids, creq[c].st = "none",
           creq_start(c, id), births' = births + 1, UNCHANGED <<quits, fault>>
    PROVE  IInv'
<1> DEFINE ws == c \in WsReqs
           r == [st |-> "addr", num |-> id, wsu |-> ws, birth |-> births]
           q == [r EXCEPT !.st = "ripe"]
           s == IF ws THEN [sat |-> "pending", ceq |-> TRUE] ELSE cws[c]
<1>1. /\ r \in CReq /\ r.st = "addr" /\ r.wsu = ws
      /\ q \in CReq /\ q.st = "ripe" /\ q.wsu = ws
  <2>1. births \in Nat /\ ws \in BOOLEAN
    BY DEF IInv, TypeOK
  <2>2. q = [st |-> "ripe", num |-> id, wsu |-> ws, birth |-> births]
    OBVIOUS
  <2> HIDE DEF ws
  <2> QED
    BY <2>1, <2>2, NewReqType
<1>2. /\ s \in CWs
      /\ ws => s.sat = "pending" /\ s.ceq
      /\ ~ws => s = cws[c]
  BY DEF IInv, TypeOK, CWs
<1>3. c \in PlainReqs => ~ws /\ "receive" \notin told[c] /\ cws[c].sat = "none"
  BY AttemptsAssumption DEF IInv, AttemptOK, ToldOK
<1>4. cws[c].sat = "none" /\ ~cws[c].ceq
  BY DEF IInv, AttemptOK, PairOK
<1>5. net = [net EXCEPT ![c] = net[c]] /\ net[c] \in Net
  BY DEF IInv, TypeOK
<1>6. FreedReq(r) \in CReq /\ FreedReq(r).st = "freed" /\ ~FreedReq(r).wsu
  BY <1>1, FreedReqType
<1>7. \/ creq' = [creq EXCEPT ![c] = r] /\ net' = [net EXCEPT ![c] = "addr"]
         /\ cws' = [cws EXCEPT ![c] = s] /\ PlanNothing
      \/ creq' = [creq EXCEPT ![c] = q] /\ net' = [net EXCEPT ![c] = "connect"]
         /\ cws' = [cws EXCEPT ![c] = s] /\ PlanNothing
      \/ creq' = [creq EXCEPT ![c] = FreedReq(r)] /\ Failed(c, id, ws)
         /\ UNCHANGED net
  BY DEF creq_start
<1> HIDE DEF r, q, s, ws
<1>8. CASE creq' = [creq EXCEPT ![c] = r] /\ net' = [net EXCEPT ![c] = "addr"]
           /\ cws' = [cws EXCEPT ![c] = s] /\ PlanNothing
  <2>1. PairOK(r, s, "addr") /\ (c \in WsReqs => WsOK(r))
    BY <1>1, <1>2, <1>4 DEF PairOK, WsOK, ws
  <2> QED
    BY <1>1, <1>2, <1>3, <1>8, <2>1, StartInv, PlanNothingType
    DEF Net, PlanNothing, IInv
<1>9. CASE creq' = [creq EXCEPT ![c] = q] /\ net' = [net EXCEPT ![c] = "connect"]
           /\ cws' = [cws EXCEPT ![c] = s] /\ PlanNothing
  <2>1. PairOK(q, s, "connect") /\ (c \in WsReqs => WsOK(q))
    BY <1>1, <1>2, <1>4 DEF PairOK, WsOK, ws
  <2> QED
    BY <1>1, <1>2, <1>3, <1>9, <2>1, StartInv, PlanNothingType
    DEF Net, PlanNothing, IInv
<1>10. CASE creq' = [creq EXCEPT ![c] = FreedReq(r)] /\ Failed(c, id, ws)
            /\ UNCHANGED net
  <2> DEFINE t == IF ws THEN FreedWs ELSE cws[c]
  <2>1. ws \in BOOLEAN
    BY DEF ws
  <2>2. /\ out' \in SUBSET Ovum /\ told' \in [Reqs -> SUBSET Tags]
        /\ told'[c] = told[c] \cup {IF ws THEN "reject" ELSE "receive"}
        /\ \A d \in Reqs \ {c} : told'[d] = told[d]
    BY <1>10, <2>1, FailedType DEF IInv
  <2>3. cws' = [cws EXCEPT ![c] = t] /\ t \in CWs
    BY <1>10 DEF Failed, IInv, TypeOK, FreedWs, CWs
  <2>4. PairOK(FreedReq(r), t, net[c]) /\ WsOK(FreedReq(r))
    BY <1>4, <1>6 DEF PairOK, WsOK, FreedWs
  <2>5. c \in PlainReqs => t.sat = "none" /\ "receive" \in told'[c]
    BY <1>3, <2>2
  <2> HIDE DEF t
  <2> QED
    BY <1>5, <1>6, <1>10, <2>2, <2>3, <2>4, <2>5, StartInv
<1> QED
  BY <1>7, <1>8, <1>9, <1>10

LEMMA DroppedType ==
    ASSUME NEW id \in Ids
    PROVE  /\ Dropped(id) \in CReq
           /\ Dropped(id).st = "dropped" /\ ~Dropped(id).wsu
BY DEF Dropped, NoReq, CReq

LEMMA RequestInv ==
    ASSUME IInv, NEW c \in Reqs, NEW id \in Ids, cttp_request(c, id)
    PROVE  IInv'
<1>1. CASE creq_start(c, id)
  BY <1>1, CreqStartInv DEF cttp_request
<1>2. CASE creq' = [creq EXCEPT ![c] = Dropped(id)] /\ PlanNothing
           /\ UNCHANGED <<cws, net>>
  <2>1. /\ cws' = [cws EXCEPT ![c] = cws[c]] /\ cws[c] \in CWs
        /\ net' = [net EXCEPT ![c] = net[c]] /\ net[c] \in Net
    BY <1>2 DEF IInv, TypeOK
  <2>2. PairOK(Dropped(id), cws[c], net[c])
    BY DroppedType DEF IInv, AttemptOK, PairOK, cttp_request
  <2>3. c \in PlainReqs => cws[c].sat = "none" /\ "receive" \notin told'[c]
    BY <1>2 DEF IInv, AttemptOK, ToldOK, cttp_request, PlanNothing
  <2>4. /\ out' \in SUBSET Ovum /\ told' \in [Reqs -> SUBSET Tags]
        /\ \A d \in Reqs \ {c} : told'[d] = told[d]
    BY <1>2, PlanNothingType DEF IInv, PlanNothing
  <2>5. /\ creq[c].st = "none" /\ births' = births + 1
        /\ UNCHANGED <<quits, fault>>
    BY DEF cttp_request
  <2>6. /\ Dropped(id).st # "quit"
        /\ c \in PlainReqs => /\ cws[c].sat = "none"
                              /\ Dropped(id).st = "freed" <=> "receive" \in told'[c]
    BY <2>3, DroppedType
  <2> DEFINE r == Dropped(id)
  <2>7. r \in CReq /\ creq' = [creq EXCEPT ![c] = r]
    BY <1>2, DroppedType
  <2> HIDE DEF r
  <2>8. PairOK(r, cws[c], net[c]) /\ WsOK(r) /\ r.st # "quit"
    BY <2>2, <2>6, DroppedType DEF r, WsOK
  <2>9. c \in PlainReqs => /\ cws[c].sat = "none"
                           /\ r.st = "freed" <=> "receive" \in told'[c]
    BY <2>6 DEF r
  <2> QED
    BY <2>1, <2>4, <2>5, <2>7, <2>8, <2>9, StartInv
<1> QED
  BY <1>1, <1>2 DEF cttp_request

LEMMA WsStartInv ==
    ASSUME IInv, NEW c \in Reqs, NEW id \in Ids, cttp_ws_start(c, id)
    PROVE  IInv'
<1>1. CASE creq_start(c, id)
  BY <1>1, CreqStartInv DEF cttp_ws_start
<1>2. CASE creq' = [creq EXCEPT ![c] = Dropped(id)] /\ Failed(c, id, TRUE)
           /\ UNCHANGED net
  <2>1. net' = [net EXCEPT ![c] = net[c]] /\ net[c] \in Net
    BY <1>2 DEF IInv, TypeOK
  <2>2. cws' = [cws EXCEPT ![c] = FreedWs] /\ FreedWs \in CWs
    BY <1>2 DEF Failed, FreedWs, CWs
  <2>3. PairOK(Dropped(id), FreedWs, net[c]) /\ WsOK(Dropped(id))
    BY DroppedType DEF FreedWs, PairOK, WsOK
  <2>4. /\ out' \in SUBSET Ovum /\ told' \in [Reqs -> SUBSET Tags]
        /\ \A d \in Reqs \ {c} : told'[d] = told[d]
    BY <1>2, FailedType DEF IInv
  <2>5. c \notin PlainReqs
    BY AttemptsAssumption DEF cttp_ws_start
  <2> QED
    BY <1>2, <2>1, <2>2, <2>3, <2>4, <2>5, DroppedType, StartInv
    DEF cttp_ws_start
<1> QED
  BY <1>1, <1>2 DEF cttp_ws_start

LEMMA ResolveInv ==
    ASSUME IInv, NEW c \in Reqs, cttp_creq_resolve_cb(c) PROVE IInv'
<1>1. CASE Dangling(c)
  BY <1>1, DanglingInv DEF cttp_creq_resolve_cb
<1>2. CASE /\ creq[c].st = "quit"
           /\ creq' = [creq EXCEPT ![c] = FreedReq(@)]
           /\ net' = [net EXCEPT ![c] = "none"]
           /\ PlanNothing
           /\ UNCHANGED <<cws, fault>>
  <2>1. ~creq[c].wsu
    BY <1>2 DEF IInv, AttemptOK, PairOK
  <2>2. "receive" \notin told[c] \/ c \notin PlainReqs
    BY <1>2 DEF IInv, AttemptOK, ToldOK
  <2>3. CASE c \in quits
    BY <1>2, <2>1, <2>2, <2>3, FreedSilentlyInv DEF Net, cttp_creq_resolve_cb
  <2>4. CASE c \notin PlainReqs
    <3>1. TypeOK'
      BY <1>2, FreedReqType, PlanNothingType
      DEF IInv, TypeOK, Net, cttp_creq_resolve_cb
    <3>2. AttemptOK(c)'
      BY <1>2, <2>1, <2>4, FreedReqType DEF IInv, TypeOK, AttemptOK, WsOK, PairOK
    <3>3. \A d \in Reqs \ {c} : Untouched(d)
      BY <1>2 DEF IInv, TypeOK, Untouched, PlanNothing, cttp_creq_resolve_cb
    <3> QED
      BY <3>1, <3>2, <3>3, OneAttempt
  <2> QED
    BY <1>2, <2>3, <2>4 DEF IInv, AttemptOK, ToldOK
<1>3. CASE creq[c].st = "addr" /\ Finished(c)
  BY <1>3, FinishedInv DEF cttp_creq_resolve_cb
<1>4. CASE /\ creq[c].st = "addr"
           /\ creq' = [creq EXCEPT ![c].st = "ripe"]
           /\ net' = [net EXCEPT ![c] = "connect"]
           /\ PlanNothing
           /\ UNCHANGED <<cws, fault>>
  <2> DEFINE r == [creq[c] EXCEPT !.st = "ripe"]
  <2>1. r \in CReq /\ r.st = "ripe" /\ r.wsu = creq[c].wsu
    BY DEF IInv, TypeOK, CReq
  <2>2. creq' = [creq EXCEPT ![c] = r]
    BY <1>4
  <2> HIDE DEF r
  <2>3. TypeOK'
    BY <1>4, <2>1, <2>2, PlanNothingType
    DEF IInv, TypeOK, Net, cttp_creq_resolve_cb
  <2>4. AttemptOK(c)'
    BY <1>4, <2>1, <2>2
    DEF IInv, TypeOK, AttemptOK, WsOK, PairOK, ToldOK, PlanNothing,
        cttp_creq_resolve_cb
  <2>5. \A d \in Reqs \ {c} : Untouched(d)
    BY <1>4, <2>2
    DEF IInv, TypeOK, Untouched, PlanNothing, cttp_creq_resolve_cb
  <2> QED
    BY <2>3, <2>4, <2>5, OneAttempt
<1> QED
  BY <1>1, <1>2, <1>3, <1>4 DEF cttp_creq_resolve_cb

\* A request libh2o runs was connected.
LEMMA RunningIsRipe ==
    ASSUME IInv, NEW c \in Reqs, Alive(c), net[c] # "addr"
    PROVE  creq[c].st = "ripe"
BY DEF IInv, AttemptOK, PairOK, Alive

LEMMA ConnectInv ==
    ASSUME IInv, NEW c \in Reqs, cttp_creq_on_connect(c) PROVE IInv'
<1>1. CASE Dangling(c)
  BY <1>1, DanglingInv DEF cttp_creq_on_connect
<1>2. CASE Alive(c) /\ Finished(c)
  BY <1>2, RunningIsRipe, FinishedInv DEF cttp_creq_on_connect
<1>3. CASE /\ Alive(c)
           /\ net' = [net EXCEPT ![c] = "head"]
           /\ PlanNothing
           /\ UNCHANGED <<creq, cws, fault>>
  BY <1>3, RunningIsRipe, WaitsInv DEF cttp_creq_on_connect, Net
<1> QED
  BY <1>1, <1>2, <1>3 DEF cttp_creq_on_connect

LEMMA HeadInv ==
    ASSUME IInv, NEW c \in Reqs, cttp_creq_on_head(c) PROVE IInv'
<1>1. CASE Dangling(c)
  BY <1>1, DanglingInv DEF cttp_creq_on_head
<1>2. CASE Alive(c) /\ Finished(c)
  BY <1>2, RunningIsRipe, FinishedInv DEF cttp_creq_on_head
<1>3. CASE Alive(c) /\ creq[c].wsu /\ Upgraded(c)
           /\ net' = [net EXCEPT ![c] = "none"] /\ UNCHANGED fault
  <2> DEFINE open == [sat |-> "open", ceq |-> FALSE]
  <2>1. open \in CWs /\ open.sat = "open" /\ ~open.ceq
    BY DEF CWs
  <2>2. /\ creq' = [creq EXCEPT ![c] = FreedReq(creq[c])]
        /\ cws' = [cws EXCEPT ![c] = open]
        /\ Plan("accept", c, creq[c].num)
    BY <1>3 DEF Upgraded
  <2> HIDE DEF open
  <2>3. creq[c] \in CReq /\ creq[c].num \in Ids
    BY DEF IInv, TypeOK, CReq
  <2>4. /\ out' \in SUBSET Ovum /\ told' \in [Reqs -> SUBSET Tags]
        /\ \A d \in Reqs \ {c} : told'[d] = told[d]
    BY <2>2, <2>3, PlanType DEF IInv, Tags
  <2>5. TypeOK'
    BY <1>3, <2>1, <2>2, <2>3, <2>4, FreedReqType
    DEF IInv, TypeOK, Net, cttp_creq_on_head
  <2>6. AttemptOK(c)'
    BY <1>3, <2>1, <2>2, <2>3, FreedReqType, PlainHasNoSession
    DEF IInv, TypeOK, AttemptOK, WsOK, PairOK
  <2>7. \A d \in Reqs \ {c} : Untouched(d)
    BY <1>3, <2>2, <2>4 DEF IInv, TypeOK, Untouched, cttp_creq_on_head
  <2> QED
    BY <2>5, <2>6, <2>7, OneAttempt
<1>4. CASE /\ Alive(c)
           /\ net' = [net EXCEPT ![c] = "body"]
           /\ PlanNothing
           /\ UNCHANGED <<creq, cws, fault>>
  BY <1>4, RunningIsRipe, WaitsInv DEF cttp_creq_on_head, Net
<1> QED
  BY <1>1, <1>2, <1>3, <1>4 DEF cttp_creq_on_head

LEMMA BodyInv ==
    ASSUME IInv, NEW c \in Reqs, cttp_creq_on_body(c) PROVE IInv'
BY RunningIsRipe, FinishedInv, DanglingInv DEF cttp_creq_on_body

-----------------------------------------------------------------------------

LEMMA QuitInv ==
    ASSUME IInv, NEW c \in Reqs, Alive(c), creq_quit(c)
    PROVE  IInv'
<1>1. /\ creq[c] \in CReq /\ creq[c].num \in Ids /\ net[c] \in Net
      /\ quits' = quits \cup {c} /\ UNCHANGED <<births, fault>>
  BY DEF IInv, TypeOK, CReq, creq_quit
<1>2. "receive" \notin told[c] \/ c \notin PlainReqs
  BY DEF IInv, AttemptOK, ToldOK, Alive
<1>3. CASE /\ creq[c].wsu
           /\ Failed(c, creq[c].num, TRUE)
           /\ creq' = [creq EXCEPT ![c] = FreedReq(@)]
           /\ UNCHANGED net
  <2>1. /\ out' \in SUBSET Ovum /\ told' \in [Reqs -> SUBSET Tags]
        /\ cws' \in [Reqs -> CWs] /\ cws'[c] = FreedWs
        /\ \A d \in Reqs \ {c} : told'[d] = told[d] /\ cws'[d] = cws[d]
    BY <1>1, <1>3, FailedType DEF IInv
  <2>2. TypeOK'
    BY <1>1, <1>3, <2>1, FreedReqType DEF IInv, TypeOK
  <2>3. AttemptOK(c)'
    BY <1>1, <1>3, <2>1, FreedReqType, PlainHasNoSession
    DEF IInv, TypeOK, AttemptOK, WsOK, PairOK, FreedWs
  <2>4. \A d \in Reqs \ {c} : Untouched(d)
    BY <1>1, <1>3, <2>1 DEF IInv, TypeOK, Untouched
  <2> QED
    BY <2>2, <2>3, <2>4, OneAttempt
<1>4. CASE /\ ~creq[c].wsu /\ creq[c].st = "addr"
           /\ creq' = [creq EXCEPT ![c].st = "quit"]
           /\ PlanNothing
           /\ UNCHANGED <<cws, net>>
  <2> DEFINE r == [creq[c] EXCEPT !.st = "quit"]
  <2>1. r \in CReq /\ r.st = "quit" /\ r.wsu = creq[c].wsu
    BY DEF IInv, TypeOK, CReq
  <2>2. creq' = [creq EXCEPT ![c] = r]
    BY <1>4
  <2> HIDE DEF r
  <2>3. TypeOK'
    BY <1>1, <1>4, <2>1, <2>2, PlanNothingType DEF IInv, TypeOK
  <2>4. AttemptOK(c)'
    BY <1>1, <1>2, <1>4, <2>1, <2>2, PlainHasNoSession
    DEF IInv, TypeOK, AttemptOK, WsOK, PairOK, ToldOK, PlanNothing
  <2>5. \A d \in Reqs \ {c} : Untouched(d)
    BY <1>1, <1>4, <2>2 DEF IInv, TypeOK, Untouched, PlanNothing
  <2> QED
    BY <2>3, <2>4, <2>5, OneAttempt
<1>5. CASE /\ ~creq[c].wsu /\ creq[c].st # "addr"
           /\ creq' = [creq EXCEPT ![c] = FreedReq(@)]
           /\ net' = [net EXCEPT ![c] = IF @ = "addr" THEN @ ELSE "none"]
           /\ PlanNothing
           /\ UNCHANGED cws
  <2> DEFINE n == IF net[c] = "addr" THEN net[c] ELSE "none"
  <2>1. n \in Net /\ net' = [net EXCEPT ![c] = n]
    BY <1>1, <1>5 DEF Net
  <2> HIDE DEF n
  <2> QED
    BY <1>1, <1>2, <1>5, <2>1, FreedSilentlyInv
<1> QED
  BY <1>3, <1>4, <1>5 DEF creq_quit

LEMMA WsCloseInv ==
    ASSUME IInv, NEW c \in Reqs, Linked(c), ws_close(c),
           UNCHANGED <<births, quits, fault>>
    PROVE  IInv'
<1> DEFINE r == IF cws[c].ceq THEN FreedReq(creq[c]) ELSE creq[c]
           n == IF net[c] = "addr" THEN net[c] ELSE "none"
<1>1. /\ creq[c] \in CReq /\ creq[c].num \in Ids /\ net[c] \in Net
  BY DEF IInv, TypeOK, CReq
<1>2. /\ creq' = [creq EXCEPT ![c] = r] /\ net' = [net EXCEPT ![c] = n]
      /\ cws' = [cws EXCEPT ![c] = FreedWs]
      /\ Plan("disconnect", c, creq[c].num)
  BY DEF ws_close
<1>3. c \notin PlainReqs
  BY PlainHasNoSession DEF Linked
<1>4. r \in CReq /\ r.st = "freed" /\ ~r.wsu
  BY <1>1, FreedReqType DEF IInv, AttemptOK, PairOK, Linked, Alive
<1>5. n \in Net /\ FreedWs \in CWs /\ FreedWs.sat = "freed" /\ ~FreedWs.ceq
  BY <1>1 DEF Net, FreedWs, CWs
<1>6. /\ out' \in SUBSET Ovum /\ told' \in [Reqs -> SUBSET Tags]
      /\ \A d \in Reqs \ {c} : told'[d] = told[d]
  BY <1>1, <1>2, PlanType DEF IInv, Tags
<1> HIDE DEF r, n
<1>7. TypeOK'
  BY <1>2, <1>4, <1>5, <1>6 DEF IInv, TypeOK
<1>8. AttemptOK(c)'
  BY <1>2, <1>3, <1>4, <1>5 DEF IInv, TypeOK, AttemptOK, WsOK, PairOK
<1>9. \A d \in Reqs \ {c} : Untouched(d)
  BY <1>2, <1>6 DEF IInv, TypeOK, Untouched
<1> QED
  BY <1>7, <1>8, <1>9, OneAttempt

LEMMA QueueCloseInv ==
    ASSUME IInv, NEW c \in Reqs, Linked(c), ws_queue_close(c) PROVE IInv'
<1>1. CASE ws_close(c)
  BY <1>1, WsCloseInv DEF ws_queue_close
<1>2. CASE /\ cws[c].sat = "open"
           /\ cws' = [cws EXCEPT ![c].sat = "closing"]
           /\ PlanNothing
           /\ UNCHANGED <<creq, net>>
  <2> DEFINE s == [cws[c] EXCEPT !.sat = "closing"]
  <2>1. s \in CWs /\ s.sat = "closing" /\ s.ceq = cws[c].ceq
    BY DEF IInv, TypeOK, CWs
  <2>2. cws' = [cws EXCEPT ![c] = s]
    BY <1>2
  <2> HIDE DEF s
  <2>3. TypeOK'
    BY <1>2, <2>1, <2>2, PlanNothingType DEF IInv, TypeOK, ws_queue_close
  <2>4. AttemptOK(c)'
    BY <1>2, <2>1, <2>2, PlainHasNoSession
    DEF IInv, TypeOK, AttemptOK, PairOK
  <2>5. \A d \in Reqs \ {c} : Untouched(d)
    BY <1>2, <2>2 DEF IInv, TypeOK, Untouched, PlanNothing, ws_queue_close
  <2> QED
    BY <2>3, <2>4, <2>5, OneAttempt
<1> QED
  BY <1>1, <1>2 DEF ws_queue_close

\* Nothing of an attempt changes but what iris is told of its session.
LEMMA ReportInv ==
    ASSUME IInv, NEW c \in Reqs, HasSocket(c), cttp_ws_message(c) PROVE IInv'
<1>1. creq[c].num \in Ids /\ c \notin PlainReqs
  BY PlainHasNoSession DEF IInv, TypeOK, CReq, HasSocket
<1>2. /\ out' \in SUBSET Ovum /\ told' \in [Reqs -> SUBSET Tags]
      /\ \A d \in Reqs \ {c} : told'[d] = told[d]
  BY <1>1, PlanType DEF IInv, Tags, cttp_ws_message
<1>3. TypeOK'
  BY <1>2 DEF IInv, TypeOK, cttp_ws_message
<1>4. AttemptOK(c)'
  BY <1>1 DEF IInv, AttemptOK, cttp_ws_message
<1>5. \A d \in Reqs \ {c} : Untouched(d)
  BY <1>2 DEF Untouched, cttp_ws_message
<1> QED
  BY <1>3, <1>4, <1>5, OneAttempt

\* Nothing happens but that nothing is told.
LEMMA IgnoredInv ==
    ASSUME IInv, PlanNothing,
           UNCHANGED <<creq, cws, net, births, quits, fault>>
    PROVE  IInv'
<1>1. TypeOK'
  BY PlanNothingType DEF IInv, TypeOK
<1> QED
  BY <1>1 DEF IInv, AttemptOK, PlanNothing

LEMMA CallbackInv ==
    ASSUME IInv, NEW c \in Reqs, Callback(c) PROVE IInv'
<1>1. CASE cttp_ws_message(c)
  BY <1>1, ReportInv DEF cttp_ws_message
<1>2. CASE cttp_ws_ends(c)
  BY <1>2, WsCloseInv DEF cttp_ws_ends, HasSocket, Linked
<1> QED
  BY <1>1, <1>2, ResolveInv, ConnectInv, HeadInv, BodyInv DEF Callback

LEMMA EffectFields ==
    ASSUME NEW e \in Effects
    PROVE  /\ e.id \in Ids
           /\ e.tag \in {"request", "websocket-handshake"} => e.req \in Reqs
BY DEF Effects, Reqs

LEMMA EffectInv ==
    ASSUME IInv, NEW e \in Effects, cttp_ef_http_client(e) PROVE IInv'
<1>1. CASE e.tag = "request" /\ cttp_request(e.req, e.id)
  BY <1>1, EffectFields, RequestInv
<1>2. CASE e.tag = "websocket-handshake" /\ cttp_ws_start(e.req, e.id)
  BY <1>2, EffectFields, WsStartInv
<1>3. ASSUME NEW c \in Reqs, FoundReq(c, e.id), creq_quit(c) PROVE IInv'
  BY <1>3, QuitInv DEF FoundReq
<1>4. ASSUME NEW c \in Reqs, FoundWs(c, e.id), ws_queue_close(c) PROVE IInv'
  BY <1>4, QueueCloseInv DEF FoundWs
<1>5. ASSUME NEW c \in Reqs, FoundWs(c, e.id), ws_send_message(c) PROVE IInv'
  <2>1. CASE PlanNothing /\ UNCHANGED <<creq, cws, net>>
    BY <1>5, <2>1, IgnoredInv DEF ws_send_message
  <2> QED
    BY <1>5, <2>1, WsCloseInv DEF ws_send_message, FoundWs
<1>6. CASE PlanNothing /\ UNCHANGED <<creq, cws, net, births, quits, fault>>
  BY <1>6, IgnoredInv
<1> QED
  BY <1>1, <1>2, <1>3, <1>4, <1>5, <1>6 DEF cttp_ef_http_client

LEMMA InitInv == ASSUME Init PROVE IInv
<1>1. NoReq \in CReq /\ NoWs \in CWs
  BY MaxIdAssumption DEF NoReq, NoWs, CReq, CWs, Ids
<1>2. TypeOK
  BY <1>1 DEF Init, TypeOK, Net, Faults
<1>3. \A c \in Reqs : AttemptOK(c)
  BY DEF Init, AttemptOK, WsOK, PairOK, ToldOK, NoReq, NoWs
<1> QED
  BY <1>2, <1>3 DEF IInv

\* The invariant of the driver, under an arbitrary kernel, peer and network.
THEOREM Inductive == Spec => []IInv
<1>1. IInv /\ [Next]_vars => IInv'
  <2> SUFFICES ASSUME IInv, [Next]_vars PROVE IInv'
    OBVIOUS
  <2>1. CASE UNCHANGED vars
    BY <2>1 DEF vars, IInv, TypeOK, AttemptOK
  <2> QED
    BY <2>1, CallbackInv, EffectInv DEF Next
<1> QED
  BY <1>1, InitInv, PTL DEF Spec

\* The driver's variables hold values of their C types in every state.
THEOREM TypeCorrect == Spec => []TypeOK
<1>1. IInv => TypeOK
  BY DEF IInv
<1> QED
  BY <1>1, Inductive, PTL

\* Whatever the kernel sends and whichever call fails, a session of cttp.c
\* waits on a live request that points back at it, and on none once open.
THEOREM LinksCorrect == Spec => []LinksSound
<1>1. IInv => LinksSound
  BY DEF IInv, AttemptOK, PairOK, LinksSound, Alive
<1> QED
  BY <1>1, Inductive, PTL

\* However cancels, resolutions and libh2o's callbacks interleave, a request
\* that is freed was answered or cancelled, and not both.
THEOREM AnswersCorrect == Spec => []AnsweredOrCancelled
<1>1. IInv => AnsweredOrCancelled
  BY DEF IInv, AttemptOK, ToldOK, AnsweredOrCancelled, Reqs
<1> QED
  BY <1>1, Inductive, PTL

-----------------------------------------------------------------------------
(* The driver implements WsClientSession. *)

LEMMA EventsNothing == ASSUME PlanNothing PROVE sessionEvents' = {}
BY DEF sessionEvents, PlanNothing

LEMMA EventsOne ==
    ASSUME NEW c \in Reqs, NEW tag, tag # "receive", NEW id, Plan(tag, c, id)
    PROVE  sessionEvents' = {<<c, tag>>}
<1> DEFINE o == [tag |-> tag, req |-> c, id |-> id]
<1>1. out' = {o}
  BY DEF Plan
<1>2. o.tag = tag /\ o.req = c
  OBVIOUS
<1> HIDE DEF o
<1>3. {p \in out' : p.tag # "receive"} = {o}
  BY <1>1, <1>2
<1>4. sessionEvents' = {<<q.req, q.tag>> : q \in {o}}
  BY <1>3 DEF sessionEvents
<1> QED
  BY <1>2, <1>4

LEMMA EventsReceive ==
    ASSUME NEW c \in Reqs, NEW id, Plan("receive", c, id)
    PROVE  sessionEvents' = {}
<1> DEFINE o == [tag |-> "receive", req |-> c, id |-> id]
<1>1. out' = {o}
  BY DEF Plan
<1>2. o.tag = "receive"
  OBVIOUS
<1> HIDE DEF o
<1>3. {p \in out' : p.tag # "receive"} = {}
  BY <1>1, <1>2
<1> QED
  BY <1>3 DEF sessionEvents

\* The states of the sessions of the two specifications.
StateOf(sat) == CASE sat = "none" -> "idle"
                  [] sat = "pending" -> "asked"
                  [] sat \in {"open", "closing"} -> "open"
                  [] sat = "freed" -> "over"

LEMMA States ==
    /\ StateOf("none") = "idle" /\ StateOf("pending") = "asked"
    /\ StateOf("open") = "open" /\ StateOf("closing") = "open"
    /\ StateOf("freed") = "over"
    /\ sessionState = [c \in WsReqs |-> StateOf(cws[c].sat)]
<1>1. StateOf("none") = "idle"
  BY DEF StateOf
<1>2. StateOf("pending") = "asked"
  BY DEF StateOf
<1>3. StateOf("open") = "open"
  BY DEF StateOf
<1>4. StateOf("closing") = "open"
  BY DEF StateOf
<1>5. StateOf("freed") = "over"
  BY DEF StateOf
<1>6. sessionState = [c \in WsReqs |-> StateOf(cws[c].sat)]
  BY DEF StateOf, sessionState
<1> QED
  BY <1>1, <1>2, <1>3, <1>4, <1>5, <1>6

\* A step of no session.
LEMMA QuietStep ==
    ASSUME \A c \in WsReqs : StateOf(cws'[c].sat) = StateOf(cws[c].sat),
           sessionEvents' = {}
    PROVE  Session!Next
<1>1. /\ sessionState = [c \in WsReqs |-> StateOf(cws[c].sat)]
      /\ sessionState' = [c \in WsReqs |-> StateOf(cws'[c].sat)]
  BY DEF StateOf, sessionState
<1>2. sessionState' = sessionState
  BY <1>1
<1> QED
  BY <1>2 DEF Session!Next, Session!Quiet

\* A step of one session, reported or not.
LEMMA SessionMoves ==
    ASSUME NEW c \in WsReqs, NEW to,
           StateOf(cws'[c].sat) = to,
           \A d \in WsReqs \ {c} : cws'[d] = cws[d]
    PROVE  /\ sessionState[c] = StateOf(cws[c].sat)
           /\ sessionState' = [sessionState EXCEPT ![c] = to]
<1>1. \A d \in WsReqs \ {c} : StateOf(cws'[d].sat) = StateOf(cws[d].sat)
  OBVIOUS
<1>2. /\ sessionState = [d \in WsReqs |-> StateOf(cws[d].sat)]
      /\ sessionState' = [d \in WsReqs |-> StateOf(cws'[d].sat)]
  BY DEF StateOf, sessionState
<1> QED
  BY <1>1, <1>2

\* A handshake that fails.
LEMMA RejectStep ==
    ASSUME NEW c \in WsReqs, NEW id, cws[c].sat \in {"none", "pending"},
           cws'[c].sat = "freed", \A d \in Reqs \ {c} : cws'[d] = cws[d],
           Plan("reject", c, id)
    PROVE  Session!Next
<1>1. sessionEvents' = {<<c, "reject">>}
  BY EventsOne DEF Reqs
<1>2. /\ sessionState[c] \in {"idle", "asked"}
      /\ sessionState' = [sessionState EXCEPT ![c] = "over"]
  BY States, SessionMoves DEF Reqs
<1> QED
  BY <1>1, <1>2 DEF Session!Next, Session!Reject, Session!Step

\* An attempt that fails.
LEMMA FailedStep ==
    ASSUME IInv, NEW c \in Reqs, NEW id \in Ids, NEW ws \in BOOLEAN,
           ws => c \in WsReqs /\ cws[c].sat \in {"none", "pending"},
           Failed(c, id, ws)
    PROVE  Session!Next
<1>1. CASE ws
  <2>1. /\ cws'[c].sat = "freed" /\ Plan("reject", c, id)
        /\ \A d \in Reqs \ {c} : cws'[d] = cws[d]
    BY <1>1, FailedType DEF IInv, Failed, FreedWs
  <2> QED
    BY <1>1, <2>1, RejectStep
<1>2. CASE ~ws
  <2>1. cws' = cws /\ Plan("receive", c, id)
    BY <1>2 DEF Failed, IInv, TypeOK
  <2> QED
    BY <2>1, EventsReceive, QuietStep
<1> QED
  BY <1>1, <1>2

\* Only a handshake has a session.
LEMMA SessionIsWs ==
    ASSUME IInv, NEW c \in Reqs, cws[c].sat # "none" \/ creq[c].wsu
    PROVE  c \in WsReqs
BY PlainHasNoSession DEF Reqs

LEMMA FinishedStep ==
    ASSUME IInv, NEW c \in Reqs, Finished(c) PROVE Session!Next
<1>1. creq[c].num \in Ids /\ creq[c].wsu \in BOOLEAN
  BY DEF IInv, TypeOK, CReq
<1>2. creq[c].wsu => c \in WsReqs /\ cws[c].sat = "pending"
  BY SessionIsWs DEF IInv, AttemptOK, PairOK
<1> QED
  BY <1>1, <1>2, FailedStep DEF Finished

LEMMA CreqStartStep ==
    ASSUME IInv, NEW c \in Reqs, NEW id \in Ids, creq[c].st = "none",
           creq_start(c, id)
    PROVE  Session!Next
<1>1. cws[c].sat = "none"
  BY DEF IInv, AttemptOK, PairOK
<1>2. CASE Failed(c, id, c \in WsReqs)
  <2>1. (c \in WsReqs) \in BOOLEAN
    OBVIOUS
  <2> QED
    BY <1>1, <1>2, <2>1, FailedStep
<1>3. CASE c \in WsReqs /\ PlanNothing
           /\ cws' = [cws EXCEPT ![c] = [sat |-> "pending", ceq |-> TRUE]]
  <2>1. cws'[c].sat = "pending" /\ \A d \in WsReqs \ {c} : cws'[d] = cws[d]
    BY <1>3 DEF IInv, TypeOK
  <2>2. /\ sessionState[c] = "idle"
        /\ sessionState' = [sessionState EXCEPT ![c] = "asked"]
    BY <1>1, <1>3, <2>1, States, SessionMoves
  <2> QED
    BY <1>3, <2>2, EventsNothing DEF Session!Next, Session!Ask
<1>4. CASE cws' = cws /\ PlanNothing
  BY <1>4, EventsNothing, QuietStep
<1>5. cws = [cws EXCEPT ![c] = cws[c]]
  BY DEF IInv, TypeOK
<1> QED
  BY <1>2, <1>3, <1>4, <1>5 DEF creq_start

LEMMA CloseStep ==
    ASSUME IInv, NEW c \in Reqs, Linked(c), ws_close(c) PROVE Session!Next
<1>1. c \in WsReqs
  BY SessionIsWs DEF Linked
<1>2. cws'[c].sat = "freed" /\ \A d \in WsReqs \ {c} : cws'[d] = cws[d]
  BY DEF IInv, TypeOK, ws_close, FreedWs
<1>3. /\ sessionState[c] \in {"asked", "open"}
      /\ sessionState' = [sessionState EXCEPT ![c] = "over"]
  BY <1>1, <1>2, States, SessionMoves DEF Linked
<1>4. sessionEvents' = {<<c, "disconnect">>}
  BY EventsOne DEF ws_close
<1> QED
  BY <1>1, <1>3, <1>4 DEF Session!Next, Session!End, Session!Step

LEMMA CallbackStep ==
    ASSUME IInv, NEW c \in Reqs, Callback(c) PROVE Session!Next
<1>1. CASE Finished(c)
  BY <1>1, FinishedStep
<1>2. CASE PlanNothing /\ cws' = cws
  BY <1>2, EventsNothing, QuietStep
<1>3. CASE creq[c].wsu /\ Upgraded(c)
  <2>1. c \in WsReqs /\ cws[c].sat = "pending"
    BY <1>3, SessionIsWs DEF IInv, AttemptOK, PairOK
  <2>2. cws'[c].sat = "open" /\ \A d \in WsReqs \ {c} : cws'[d] = cws[d]
    BY <1>3 DEF Upgraded, IInv, TypeOK
  <2>3. /\ sessionState[c] = "asked"
        /\ sessionState' = [sessionState EXCEPT ![c] = "open"]
    BY <2>1, <2>2, States, SessionMoves
  <2>4. sessionEvents' = {<<c, "accept">>}
    BY <1>3, EventsOne DEF Upgraded
  <2> QED
    BY <2>1, <2>3, <2>4 DEF Session!Next, Session!Accept, Session!Step
<1>4. CASE cttp_ws_message(c)
  <2>1. c \in WsReqs /\ StateOf(cws[c].sat) = "open" /\ cws' = cws
    BY <1>4, SessionIsWs, States DEF cttp_ws_message, HasSocket
  <2>2. /\ sessionState[c] = "open"
        /\ sessionState' = [sessionState EXCEPT ![c] = "open"]
    BY <2>1, SessionMoves
  <2>3. sessionEvents' = {<<c, "message">>}
    BY <1>4, EventsOne DEF cttp_ws_message
  <2> QED
    BY <2>1, <2>2, <2>3 DEF Session!Next, Session!Frame, Session!Step
<1>5. CASE cttp_ws_ends(c)
  BY <1>5, CloseStep DEF cttp_ws_ends, HasSocket, Linked
<1> QED
  BY <1>1, <1>2, <1>3, <1>4, <1>5
  DEF Callback, cttp_creq_resolve_cb, cttp_creq_on_connect, cttp_creq_on_head,
      cttp_creq_on_body, Dangling

LEMMA QueueCloseStep ==
    ASSUME IInv, NEW c \in Reqs, Linked(c), ws_queue_close(c)
    PROVE  Session!Next
<1>1. CASE ws_close(c)
  BY <1>1, CloseStep
<1>2. CASE /\ cws[c].sat = "open"
           /\ cws' = [cws EXCEPT ![c].sat = "closing"]
           /\ PlanNothing
  <2>1. \A d \in Reqs : StateOf(cws'[d].sat) = StateOf(cws[d].sat)
    <3>1. cws'[c].sat = "closing" /\ \A d \in Reqs \ {c} : cws'[d] = cws[d]
      BY <1>2 DEF IInv, TypeOK, CWs
    <3> QED
      BY <1>2, <3>1, States
  <2> QED
    BY <1>2, <2>1, EventsNothing, QuietStep DEF Reqs
<1> QED
  BY <1>1, <1>2 DEF ws_queue_close

LEMMA EffectStep ==
    ASSUME IInv, NEW e \in Effects, cttp_ef_http_client(e) PROVE Session!Next
<1>1. CASE PlanNothing /\ cws' = cws
  BY <1>1, EventsNothing, QuietStep
<1>2. CASE e.tag = "request" /\ cttp_request(e.req, e.id)
  BY <1>1, <1>2, EffectFields, CreqStartStep DEF cttp_request
<1>3. CASE e.tag = "websocket-handshake" /\ cttp_ws_start(e.req, e.id)
  <2>1. e.req \in Reqs /\ e.id \in Ids /\ e.req \in WsReqs
    BY <1>3, EffectFields DEF cttp_ws_start
  <2>2. creq[e.req].st = "none" /\ cws[e.req].sat = "none"
    BY <1>3, <2>1 DEF cttp_ws_start, IInv, AttemptOK, PairOK
  <2> QED
    BY <1>3, <2>1, <2>2, CreqStartStep, FailedStep DEF cttp_ws_start
<1>4. ASSUME NEW c \in Reqs, creq_quit(c) PROVE Session!Next
  <2>1. creq[c].num \in Ids
    BY DEF IInv, TypeOK, CReq
  <2>2. creq[c].wsu => c \in WsReqs /\ cws[c].sat = "pending"
    BY SessionIsWs DEF IInv, AttemptOK, PairOK
  <2> QED
    BY <1>1, <1>4, <2>1, <2>2, FailedStep DEF creq_quit
<1>5. ASSUME NEW c \in Reqs, FoundWs(c, e.id), ws_queue_close(c)
      PROVE  Session!Next
  BY <1>5, QueueCloseStep DEF FoundWs
<1>6. ASSUME NEW c \in Reqs, FoundWs(c, e.id), ws_send_message(c)
      PROVE  Session!Next
  BY <1>1, <1>6, CloseStep DEF FoundWs, ws_send_message
<1> QED
  BY <1>1, <1>2, <1>3, <1>4, <1>5, <1>6 DEF cttp_ef_http_client

\* Under any kernel, and in any order of effects, resolutions and callbacks, a
\* session of cttp.c is one as WsClientSession describes it: it is accepted at
\* most once, and its end is reported once and last.
THEOREM ClientSessionImplemented == Spec => ImplementsSession
<1>1. Init => Session!Init
  BY DEF Init, Session!Init, sessionState, sessionEvents, NoWs, Reqs
<1>2. IInv /\ [Next]_vars => [Session!Next]_(Session!vars)
  <2> SUFFICES ASSUME IInv, [Next]_vars
               PROVE  Session!Next \/ UNCHANGED Session!vars
    OBVIOUS
  <2>1. CASE UNCHANGED vars
    BY <2>1 DEF vars, Session!vars, sessionState, sessionEvents
  <2> QED
    BY <2>1, CallbackStep, EffectStep DEF Next
<1> QED
  BY <1>1, <1>2, Inductive, PTL DEF Spec, Session!Spec, ImplementsSession

-----------------------------------------------------------------------------
(* What a step shows of itself, for the theorems of the composition.         *)

Silent == out' = {}
Says(c, tag) == out' = {[tag |-> tag, req |-> c, id |-> creq'[c].num]}

\* Only attempt c takes part in the step.
Alone(c) == \A d \in Reqs \ {c} : Untouched(d)

\* A request is connected, written, answered or, if cancelled, freed.
RequestGoes(c) ==
    /\ creq[c].st # "none" /\ creq'[c].num = creq[c].num
    /\ cws'[c] = cws[c] /\ (c \in quits' <=> c \in quits)
    /\ \/ Silent /\ creq'[c].st = creq[c].st /\ net'[c] = net[c]
       \/ Silent /\ creq[c].st = "ripe" /\ creq'[c].st = "ripe"
          /\ net'[c] \in {"head", "body"}
       \/ Silent /\ creq[c].st = "addr" /\ creq'[c].st = "ripe"
          /\ net'[c] = "connect"
       \/ Silent /\ creq[c].st = "quit" /\ creq'[c].st = "freed"
          /\ net'[c] = "none"
       \/ Says(c, "receive") /\ creq[c].st \in {"addr", "ripe"}
          /\ creq'[c].st = "freed" /\ net'[c] = "none"

\* A new request waits, is answered at once, or has no url.
RequestBegins(c, id) ==
    /\ creq[c].st = "none" /\ creq'[c].num = id
    /\ cws'[c] = cws[c] /\ (c \in quits' <=> c \in quits)
    /\ \/ Silent /\ creq'[c].st = "addr" /\ net'[c] = "addr"
       \/ Silent /\ creq'[c].st = "ripe" /\ net'[c] = "connect"
       \/ Silent /\ creq'[c].st = "dropped" /\ net'[c] = net[c]
       \/ Says(c, "receive") /\ creq'[c].st = "freed" /\ net'[c] = net[c]

\* A request is cancelled.
RequestQuits(c) ==
    /\ creq'[c].num = creq[c].num /\ cws'[c] = cws[c] /\ c \in quits'
    /\ Silent
    /\ \/ creq[c].st = "addr" /\ creq'[c].st = "quit" /\ net'[c] = net[c]
       \/ creq[c].st \in {"ripe", "quit"} /\ creq'[c].st = "freed"
          /\ net'[c] = IF net[c] = "addr" THEN "addr" ELSE "none"

\* A session is accepted, rejected, heard of or ended.
SessionGoes(c) ==
    /\ creq[c].st # "none" /\ creq'[c].st # "none"
    /\ creq'[c].num = creq[c].num
    /\ creq'[c].st \in {"addr", "quit", "ripe"}
         => creq[c].st \in {"addr", "quit", "ripe"}
    /\ \/ cws'[c].sat = cws[c].sat /\ (Silent \/ Says(c, "message"))
       \/ cws[c].sat = "pending" /\ cws'[c].sat = "open" /\ Says(c, "accept")
       \/ cws[c].sat = "pending" /\ cws'[c].sat = "freed" /\ Says(c, "reject")
       \/ cws[c].sat = "open" /\ cws'[c].sat = "closing" /\ Silent
       \/ Linked(c) /\ cws'[c].sat = "freed" /\ Says(c, "disconnect")

\* A new handshake waits, or is rejected at once.
SessionBegins(c, id) ==
    /\ creq[c].st = "none" /\ creq'[c].st # "none" /\ creq'[c].num = id
    /\ cws[c].sat = "none"
    /\ \/ cws'[c].sat = "pending" /\ Silent
       \/ /\ cws'[c].sat = "freed" /\ Says(c, "reject")
          /\ creq'[c].st \in {"freed", "dropped"}

Goes(c) == /\ Alone(c)
           /\ c \in PlainReqs => RequestGoes(c)
           /\ c \in WsReqs => SessionGoes(c)

\* What is planned, of whom.
LEMMA SaysNum ==
    ASSUME TypeOK, NEW c \in Reqs, NEW tag, NEW id, Plan(tag, c, id),
           creq'[c].num = id
    PROVE  Says(c, tag) /\ \A d \in Reqs \ {c} : told'[d] = told[d]
<1>1. \A d \in Reqs \ {c} : told'[d] = told[d]
  BY DEF TypeOK, Plan
<1> QED
  BY <1>1 DEF Plan, Says

LEMMA FreedFields ==
    ASSUME NEW r \in CReq
    PROVE  FreedReq(r).st = "freed" /\ FreedReq(r).num = r.num
BY DEF FreedReq, CReq

\* What is left as it was is assigned to itself.
LEMMA Unassigned ==
    ASSUME TypeOK, NEW c \in Reqs
    PROVE  /\ creq = [creq EXCEPT ![c] = creq[c]]
           /\ cws = [cws EXCEPT ![c] = cws[c]]
           /\ net = [net EXCEPT ![c] = net[c]]
BY DEF TypeOK

\* The end of a running attempt.
LEMMA FinishedShows ==
    ASSUME IInv, NEW c \in Reqs, creq[c].st \in {"addr", "ripe"}, Finished(c),
           quits' = quits
    PROVE  Goes(c)
<1>1. creq[c] \in CReq /\ TypeOK
  BY DEF IInv, TypeOK
<1>2. /\ creq' = [creq EXCEPT ![c] = FreedReq(creq[c])]
      /\ net' = [net EXCEPT ![c] = "none"]
      /\ cws' = [cws EXCEPT ![c] = IF creq[c].wsu THEN FreedWs ELSE cws[c]]
      /\ Plan(IF creq[c].wsu THEN "reject" ELSE "receive", c, creq[c].num)
  BY DEF Finished, Failed
<1>3. creq'[c].st = "freed" /\ creq'[c].num = creq[c].num
  BY <1>1, <1>2, FreedFields DEF TypeOK
<1>4. /\ Says(c, IF creq[c].wsu THEN "reject" ELSE "receive")
      /\ \A d \in Reqs \ {c} : told'[d] = told[d]
  BY <1>1, <1>2, <1>3, SaysNum
<1>5. /\ Alone(c) /\ net'[c] = "none"
      /\ cws'[c] = IF creq[c].wsu THEN FreedWs ELSE cws[c]
  <2> DEFINE r == FreedReq(creq[c])
             s == IF creq[c].wsu THEN FreedWs ELSE cws[c]
  <2>1. /\ creq' = [creq EXCEPT ![c] = r] /\ cws' = [cws EXCEPT ![c] = s]
        /\ quits' = quits
    BY <1>2
  <2> HIDE DEF r, s
  <2>2. Alone(c) /\ net'[c] = "none" /\ cws'[c] = s
    BY <1>1, <1>2, <1>4, <2>1 DEF TypeOK, Alone, Untouched
  <2> QED
    BY <2>2 DEF s
<1>6. CASE c \in PlainReqs
  <2>1. ~creq[c].wsu /\ c \notin WsReqs
    BY <1>6, PlainHasNoSession, AttemptsAssumption
  <2> QED
    BY <1>3, <1>4, <1>5, <2>1 DEF Goes, RequestGoes
<1>7. CASE c \in WsReqs
  <2>1. creq[c].wsu /\ cws[c].sat = "pending" /\ c \notin PlainReqs
    BY <1>7, AttemptsAssumption DEF IInv, AttemptOK, PairOK, WsOK
  <2>2. FreedWs.sat = "freed"
    BY DEF FreedWs
  <2> QED
    BY <1>3, <1>4, <1>5, <2>1, <2>2 DEF Goes, SessionGoes
<1> QED
  BY <1>6, <1>7 DEF Reqs

\* A callback that leaves the attempt, or only libuv's or libh2o's part of it.
LEMMA WaitsShows ==
    ASSUME IInv, NEW c \in Reqs, NEW n, PlanNothing,
           UNCHANGED <<creq, cws, quits>>, net' = [net EXCEPT ![c] = n],
           \/ n = net[c] /\ creq[c].st # "none"
           \/ creq[c].st = "ripe" /\ n \in {"head", "body"}
    PROVE  Goes(c)
<1>1. TypeOK
  BY DEF IInv
<1>2. Silent /\ told' = told
  BY DEF PlanNothing, Silent
<1>3. Alone(c) /\ net'[c] = n
  <2>1. net'[c] = n /\ \A d \in Reqs \ {c} : net'[d] = net[d]
    BY <1>1 DEF TypeOK
  <2> QED
    BY <1>2, <2>1 DEF Alone, Untouched
<1> QED
  BY <1>2, <1>3 DEF Goes, RequestGoes, SessionGoes

LEMMA DanglingShows ==
    ASSUME IInv, NEW c \in Reqs, Dangling(c), quits' = quits
    PROVE  Goes(c)
<1>1. TypeOK
  BY DEF IInv
<1> QED
  BY <1>1, Unassigned, WaitsShows DEF Dangling

\* Sessions that end, and the request that waits goes with them.
LEMMA ClosedShows ==
    ASSUME IInv, NEW c \in Reqs, Linked(c), ws_close(c), quits' = quits
    PROVE  c \in WsReqs /\ Alone(c) /\ SessionGoes(c)
<1>1. TypeOK /\ creq[c] \in CReq /\ creq[c].st # "none"
  BY DEF IInv, TypeOK, AttemptOK, PairOK, Linked
<1>2. c \in WsReqs
  BY SessionIsWs DEF Linked
<1> DEFINE r == IF cws[c].ceq THEN FreedReq(creq[c]) ELSE creq[c]
<1>3. /\ creq' = [creq EXCEPT ![c] = r] /\ cws' = [cws EXCEPT ![c] = FreedWs]
      /\ Plan("disconnect", c, creq[c].num)
  BY DEF ws_close
<1>4. r.num = creq[c].num /\ (r.st = "freed" \/ r.st = creq[c].st)
  BY <1>1, FreedFields
<1> HIDE DEF r
<1>5. creq'[c] = r /\ cws'[c].sat = "freed"
  BY <1>1, <1>3 DEF TypeOK, FreedWs
<1>6. Says(c, "disconnect") /\ \A d \in Reqs \ {c} : told'[d] = told[d]
  BY <1>1, <1>3, <1>4, <1>5, SaysNum
<1>7. Alone(c)
  BY <1>1, <1>3, <1>6 DEF TypeOK, Alone, Untouched, ws_close
<1> QED
  BY <1>1, <1>2, <1>4, <1>5, <1>6, <1>7 DEF SessionGoes

\* A frame, told or written, or a session that waits for the other end's.
LEMMA FramesShow ==
    ASSUME IInv, NEW c \in Reqs, Linked(c),
           UNCHANGED <<creq, net, quits>>,
           \/ cws' = cws /\ PlanNothing
           \/ cws' = cws /\ Plan("message", c, creq[c].num)
           \/ /\ cws[c].sat = "open" /\ cws' = [cws EXCEPT ![c].sat = "closing"]
              /\ PlanNothing
    PROVE  c \in WsReqs /\ Alone(c) /\ SessionGoes(c)
<1>1. TypeOK /\ creq[c].st # "none" /\ cws[c] \in CWs
  BY DEF IInv, TypeOK, AttemptOK, PairOK, Linked
<1>2. c \in WsReqs
  BY SessionIsWs DEF Linked
<1>3. /\ \A d \in Reqs \ {c} : told'[d] = told[d]
      /\ Silent \/ Says(c, "message")
      /\ PlanNothing => Silent
  BY <1>1, SaysNum DEF PlanNothing, Silent
<1>4. /\ \A d \in Reqs \ {c} : cws'[d] = cws[d]
      /\ \/ cws'[c].sat = cws[c].sat
         \/ cws[c].sat = "open" /\ cws'[c].sat = "closing" /\ Silent
  BY <1>1, <1>3 DEF TypeOK, CWs
<1>5. Alone(c)
  BY <1>3, <1>4 DEF Alone, Untouched
<1> QED
  BY <1>1, <1>2, <1>3, <1>4, <1>5 DEF SessionGoes

LEMMA ResolveShows ==
    ASSUME IInv, NEW c \in Reqs, cttp_creq_resolve_cb(c) PROVE Goes(c)
<1>1. TypeOK /\ creq[c] \in CReq /\ quits' = quits
  BY DEF IInv, TypeOK, cttp_creq_resolve_cb
<1>2. CASE Dangling(c) \/ (creq[c].st = "addr" /\ Finished(c))
  BY <1>1, <1>2, DanglingShows, FinishedShows
<1>3. ASSUME NEW to \in {"ripe", "freed"}, NEW n, NEW r,
             creq' = [creq EXCEPT ![c] = r], r.st = to, r.num = creq[c].num,
             net' = [net EXCEPT ![c] = n], PlanNothing, cws' = cws,
             \/ creq[c].st = "quit" /\ to = "freed" /\ n = "none"
             \/ creq[c].st = "addr" /\ to = "ripe" /\ n = "connect"
      PROVE  Goes(c)
  <2>1. creq'[c] = r /\ net'[c] = n /\ Silent /\ Alone(c)
    BY <1>1, <1>3 DEF TypeOK, Alone, Untouched, PlanNothing, Silent
  <2> QED
    BY <1>1, <1>3, <2>1 DEF Goes, RequestGoes, SessionGoes
<1>4. CASE /\ creq[c].st = "quit"
           /\ creq' = [creq EXCEPT ![c] = FreedReq(creq[c])]
           /\ net' = [net EXCEPT ![c] = "none"]
           /\ PlanNothing /\ cws' = cws
  <2> DEFINE r == FreedReq(creq[c])
  <2>1. r.st = "freed" /\ r.num = creq[c].num
    BY <1>1, FreedFields
  <2> HIDE DEF r
  <2> QED
    BY <1>3, <1>4, <2>1 DEF r
<1>5. CASE /\ creq[c].st = "addr"
           /\ creq' = [creq EXCEPT ![c] = [creq[c] EXCEPT !.st = "ripe"]]
           /\ net' = [net EXCEPT ![c] = "connect"]
           /\ PlanNothing /\ cws' = cws
  <2> DEFINE r == [creq[c] EXCEPT !.st = "ripe"]
  <2>1. r.st = "ripe" /\ r.num = creq[c].num
    BY <1>1 DEF CReq
  <2> HIDE DEF r
  <2> QED
    BY <1>3, <1>5, <2>1 DEF r
<1> QED
  BY <1>2, <1>4, <1>5 DEF cttp_creq_resolve_cb

LEMMA HeadShows ==
    ASSUME IInv, NEW c \in Reqs, cttp_creq_on_head(c) PROVE Goes(c)
<1>1. TypeOK /\ creq[c] \in CReq /\ quits' = quits
  BY DEF IInv, TypeOK, cttp_creq_on_head
<1>2. Alive(c) => creq[c].st = "ripe"
  BY RunningIsRipe DEF cttp_creq_on_head
<1>3. CASE Dangling(c) \/ (Alive(c) /\ Finished(c))
  BY <1>1, <1>2, <1>3, DanglingShows, FinishedShows
<1>4. CASE /\ Alive(c) /\ net' = [net EXCEPT ![c] = "body"] /\ PlanNothing
           /\ UNCHANGED <<creq, cws, fault>>
  BY <1>1, <1>2, <1>4, WaitsShows
<1>5. CASE creq[c].wsu /\ Upgraded(c) /\ Alive(c)
           /\ net' = [net EXCEPT ![c] = "none"]
  <2> DEFINE r == FreedReq(creq[c])
             s == [sat |-> "open", ceq |-> FALSE]
  <2>1. /\ creq' = [creq EXCEPT ![c] = r] /\ cws' = [cws EXCEPT ![c] = s]
        /\ Plan("accept", c, creq[c].num)
    BY <1>5 DEF Upgraded
  <2>2. r.st = "freed" /\ r.num = creq[c].num /\ s.sat = "open"
    BY <1>1, FreedFields
  <2> HIDE DEF r, s
  <2>3. creq'[c] = r /\ cws'[c] = s
    BY <1>1, <2>1 DEF TypeOK
  <2>4. Says(c, "accept") /\ \A d \in Reqs \ {c} : told'[d] = told[d]
    BY <1>1, <2>1, <2>2, <2>3, SaysNum
  <2>5. Alone(c)
    BY <1>1, <1>5, <2>1, <2>4 DEF TypeOK, Alone, Untouched
  <2>6. c \in WsReqs /\ c \notin PlainReqs /\ cws[c].sat = "pending"
    BY <1>5, SessionIsWs, AttemptsAssumption DEF IInv, AttemptOK, PairOK
  <2> QED
    BY <1>2, <1>5, <2>2, <2>3, <2>4, <2>5, <2>6 DEF Goes, SessionGoes
<1> QED
  BY <1>3, <1>4, <1>5 DEF cttp_creq_on_head

\* What a callback shows: it is about a request or a session as it goes.
LEMMA CallbackShows ==
    ASSUME IInv, NEW c \in Reqs, Callback(c) PROVE Goes(c)
<1>1. ASSUME Alone(c), SessionGoes(c), c \in WsReqs PROVE Goes(c)
  BY <1>1, AttemptsAssumption DEF Goes
<1>2. CASE cttp_creq_on_connect(c)
  BY <1>2, RunningIsRipe, DanglingShows, FinishedShows, WaitsShows
  DEF cttp_creq_on_connect
<1>3. CASE cttp_creq_on_body(c)
  BY <1>3, RunningIsRipe, DanglingShows, FinishedShows DEF cttp_creq_on_body
<1>4. CASE cttp_ws_message(c)
  BY <1>1, <1>4, FramesShow DEF cttp_ws_message, HasSocket, Linked
<1>5. CASE cttp_ws_ends(c)
  BY <1>1, <1>5, ClosedShows DEF cttp_ws_ends, HasSocket, Linked
<1> QED
  BY <1>2, <1>3, <1>4, <1>5, ResolveShows, HeadShows DEF Callback

\* A request cancelled in libh2o, or once it is resolved.
LEMMA QuitShows ==
    ASSUME IInv, NEW c \in Reqs, Alive(c), creq_quit(c)
    PROVE  /\ Alone(c)
           /\ c \in PlainReqs => RequestQuits(c)
           /\ c \in WsReqs => SessionGoes(c)
<1>1. TypeOK /\ creq[c] \in CReq /\ quits' = quits \cup {c}
  BY DEF IInv, TypeOK, creq_quit
<1>2. FreedReq(creq[c]).st = "freed" /\ FreedReq(creq[c]).num = creq[c].num
  BY <1>1, FreedFields
<1>3. CASE creq[c].wsu
  <2>1. c \in WsReqs /\ c \notin PlainReqs /\ cws[c].sat = "pending"
    BY <1>3, SessionIsWs, AttemptsAssumption DEF IInv, AttemptOK, PairOK
  <2>2. /\ Plan("reject", c, creq[c].num)
        /\ cws' = [cws EXCEPT ![c] = FreedWs]
        /\ creq' = [creq EXCEPT ![c] = FreedReq(creq[c])] /\ net' = net
    BY <1>3 DEF creq_quit, Failed
  <2>3. creq'[c] = FreedReq(creq[c]) /\ cws'[c].sat = "freed"
    BY <1>1, <2>2 DEF TypeOK, FreedWs
  <2>4. Says(c, "reject") /\ \A d \in Reqs \ {c} : told'[d] = told[d]
    BY <1>1, <1>2, <2>2, <2>3, SaysNum
  <2>5. Alone(c)
    BY <1>1, <2>2, <2>4 DEF TypeOK, Alone, Untouched
  <2> QED
    BY <1>2, <2>1, <2>3, <2>4, <2>5 DEF SessionGoes, Alive
<1>4. CASE ~creq[c].wsu
  <2>1. c \notin WsReqs
    BY <1>4 DEF IInv, AttemptOK, WsOK, Alive
  <2>2. PlanNothing /\ cws' = cws
    BY <1>4 DEF creq_quit
  <2>3. /\ \A d \in Reqs \ {c} : creq'[d] = creq[d] /\ net'[d] = net[d]
        /\ creq'[c].num = creq[c].num
        /\ \/ creq[c].st = "addr" /\ creq'[c].st = "quit" /\ net'[c] = net[c]
           \/ creq[c].st # "addr" /\ creq'[c].st = "freed"
              /\ net'[c] = IF net[c] = "addr" THEN "addr" ELSE "none"
    <3>1. CASE creq[c].st = "addr"
      BY <1>1, <1>4, <3>1 DEF creq_quit, TypeOK, CReq
    <3>2. CASE creq[c].st # "addr"
      BY <1>1, <1>2, <1>4, <3>2 DEF creq_quit, TypeOK
    <3> QED
      BY <3>1, <3>2
  <2>4. Alone(c) /\ Silent
    BY <1>1, <2>2, <2>3 DEF Alone, Untouched, PlanNothing, Silent
  <2> QED
    BY <1>1, <2>1, <2>2, <2>3, <2>4 DEF RequestQuits, Alive
<1> QED
  BY <1>3, <1>4

\* A new attempt is started, or fails.
LEMMA StartShows ==
    ASSUME IInv, NEW c \in Reqs, NEW id \in Ids, creq[c].st = "none",
           quits' = quits,
           \/ creq_start(c, id)
           \/ /\ creq' = [creq EXCEPT ![c] = Dropped(id)] /\ net' = net
              /\ \/ c \in PlainReqs /\ PlanNothing /\ cws' = cws
                 \/ c \in WsReqs /\ Failed(c, id, TRUE)
    PROVE  /\ Alone(c)
           /\ c \in PlainReqs => RequestBegins(c, id)
           /\ c \in WsReqs => SessionBegins(c, id)
<1>1. TypeOK /\ cws[c].sat = "none"
  BY DEF IInv, AttemptOK, PairOK
<1>2. ASSUME NEW st \in {"addr", "ripe", "freed", "dropped"}, NEW r,
             r.st = st, r.num = id, creq' = [creq EXCEPT ![c] = r],
             \/ st \in {"addr", "ripe"} /\ PlanNothing
                /\ net' = [net EXCEPT ![c] = IF st = "addr" THEN "addr"
                                             ELSE "connect"]
                /\ \/ c \in WsReqs
                      /\ cws' = [cws EXCEPT ![c] = [sat |-> "pending",
                                                    ceq |-> TRUE]]
                   \/ c \notin WsReqs /\ cws' = cws
             \/ st = "dropped" /\ c \in PlainReqs /\ PlanNothing
                /\ cws' = cws /\ net' = net
             \/ st \in {"freed", "dropped"} /\ c \in WsReqs
                /\ cws' = [cws EXCEPT ![c] = FreedWs]
                /\ Plan("reject", c, id) /\ net' = net
             \/ st = "freed" /\ c \notin WsReqs /\ cws' = cws
                /\ Plan("receive", c, id) /\ net' = net
      PROVE  /\ Alone(c)
             /\ c \in PlainReqs => RequestBegins(c, id)
             /\ c \in WsReqs => SessionBegins(c, id)
  <2>1. creq'[c] = r
    BY <1>1, <1>2 DEF TypeOK
  <2>2. /\ PlanNothing => Silent
        /\ Plan("reject", c, id) => Says(c, "reject")
        /\ Plan("receive", c, id) => Says(c, "receive")
        /\ \A d \in Reqs \ {c} : told'[d] = told[d]
    <3>1. CASE PlanNothing
      BY <3>1, <1>1, <1>2, <2>1, SaysNum DEF PlanNothing, Silent
    <3>2. CASE Plan("reject", c, id) \/ Plan("receive", c, id)
      BY <3>2, <1>1, <1>2, <2>1, SaysNum DEF PlanNothing, Silent
    <3> QED
      BY <1>2, <3>1, <3>2
  <2>3. Alone(c)
    BY <1>1, <1>2, <2>2 DEF TypeOK, Alone, Untouched
  <2>4. c \in PlainReqs => c \notin WsReqs
    BY AttemptsAssumption
  <2>5. CASE c \in PlainReqs
    BY <1>1, <1>2, <2>1, <2>2, <2>3, <2>4, <2>5 DEF RequestBegins, TypeOK
  <2>6. CASE c \in WsReqs
    <3>1. FreedWs.sat = "freed"
      BY DEF FreedWs
    <3>2. \/ cws'[c].sat = "pending" /\ Silent
          \/ cws'[c].sat = "freed" /\ Says(c, "reject")
             /\ st \in {"freed", "dropped"}
      BY <1>1, <1>2, <2>2, <2>4, <2>6, <3>1 DEF TypeOK
    <3> QED
      BY <1>1, <1>2, <2>1, <2>3, <2>4, <2>6, <3>2 DEF SessionBegins
  <2> QED
    BY <2>3, <2>5, <2>6
<1> DEFINE ws == c \in WsReqs
           r == [st |-> "addr", num |-> id, wsu |-> ws, birth |-> births]
           q == [r EXCEPT !.st = "ripe"]
           f == FreedReq(r)
           d == Dropped(id)
<1>3. /\ r.st = "addr" /\ r.num = id /\ q.st = "ripe" /\ q.num = id
      /\ f.st = "freed" /\ f.num = id
      /\ d.st = "dropped" /\ d.num = id
  BY DEF FreedReq, Dropped, NoReq
<1>4. \/ /\ creq' = [creq EXCEPT ![c] = r]
         /\ net' = [net EXCEPT ![c] = "addr"]
         /\ cws' = [cws EXCEPT ![c] = IF ws THEN [sat |-> "pending", ceq |-> TRUE]
                                      ELSE @]
         /\ PlanNothing
      \/ /\ creq' = [creq EXCEPT ![c] = q]
         /\ net' = [net EXCEPT ![c] = "connect"]
         /\ cws' = [cws EXCEPT ![c] = IF ws THEN [sat |-> "pending", ceq |-> TRUE]
                                      ELSE @]
         /\ PlanNothing
      \/ creq' = [creq EXCEPT ![c] = f] /\ Failed(c, id, ws) /\ net' = net
      \/ /\ creq' = [creq EXCEPT ![c] = d] /\ net' = net
         /\ \/ c \in PlainReqs /\ PlanNothing /\ cws' = cws
            \/ c \in WsReqs /\ Failed(c, id, TRUE)
  BY DEF creq_start
<1>5. cws = [cws EXCEPT ![c] = cws[c]]
  BY <1>1, Unassigned
<1> HIDE DEF r, q, f, d
<1>6. CASE /\ creq' = [creq EXCEPT ![c] = r]
           /\ net' = [net EXCEPT ![c] = "addr"]
           /\ cws' = [cws EXCEPT ![c] = IF ws THEN [sat |-> "pending", ceq |-> TRUE]
                                        ELSE @]
           /\ PlanNothing
  BY <1>2, <1>3, <1>5, <1>6
<1>7. CASE /\ creq' = [creq EXCEPT ![c] = q]
           /\ net' = [net EXCEPT ![c] = "connect"]
           /\ cws' = [cws EXCEPT ![c] = IF ws THEN [sat |-> "pending", ceq |-> TRUE]
                                        ELSE @]
           /\ PlanNothing
  BY <1>2, <1>3, <1>5, <1>7
<1>8. CASE creq' = [creq EXCEPT ![c] = f] /\ Failed(c, id, ws) /\ net' = net
  BY <1>2, <1>3, <1>5, <1>8 DEF Failed
<1>9. CASE /\ creq' = [creq EXCEPT ![c] = d] /\ net' = net
           /\ \/ c \in PlainReqs /\ PlanNothing /\ cws' = cws
              \/ c \in WsReqs /\ Failed(c, id, TRUE)
  BY <1>2, <1>3, <1>5, <1>9 DEF Failed
<1> QED
  BY <1>4, <1>6, <1>7, <1>8, <1>9

\* What an effect shows: it is ignored, it starts or cancels an attempt, or a
\* session goes on.
LEMMA EffectShows ==
    ASSUME IInv, NEW e \in Effects, cttp_ef_http_client(e)
    PROVE  \/ /\ e.tag \notin {"request", "websocket-handshake"}
              /\ PlanNothing /\ UNCHANGED <<creq, cws, net, quits>>
           \/ /\ e.tag = "request" /\ e.req \in PlainReqs
              /\ Alone(e.req) /\ RequestBegins(e.req, e.id)
           \/ /\ e.tag = "websocket-handshake" /\ e.req \in WsReqs
              /\ Alone(e.req) /\ SessionBegins(e.req, e.id)
           \/ /\ e.tag = "cancel-request"
              /\ \E c \in PlainReqs : /\ FoundReq(c, e.id)
                                      /\ Alone(c) /\ RequestQuits(c)
           \/ /\ e.tag \notin {"request", "websocket-handshake"}
              /\ \E c \in WsReqs : Goes(c)
<1>0. \A c \in WsReqs : Alone(c) /\ SessionGoes(c) => Goes(c)
  BY AttemptsAssumption DEF Goes
<1>1. CASE e.tag = "request" /\ cttp_request(e.req, e.id)
  <2>1. e.req \in Reqs /\ e.id \in Ids /\ e.req \in PlainReqs
        /\ creq[e.req].st = "none" /\ quits' = quits
    BY <1>1, EffectFields DEF cttp_request
  <2> QED
    BY <1>1, <2>1, StartShows DEF cttp_request
<1>2. CASE e.tag = "websocket-handshake" /\ cttp_ws_start(e.req, e.id)
  <2>1. e.req \in Reqs /\ e.id \in Ids /\ e.req \in WsReqs
        /\ creq[e.req].st = "none" /\ quits' = quits
    BY <1>2, EffectFields DEF cttp_ws_start
  <2> QED
    BY <1>2, <2>1, StartShows DEF cttp_ws_start
<1>3. ASSUME NEW c \in Reqs, FoundReq(c, e.id), creq_quit(c),
             e.tag = "cancel-request"
      PROVE  \/ /\ c \in PlainReqs /\ FoundReq(c, e.id)
                /\ Alone(c) /\ RequestQuits(c)
             \/ c \in WsReqs /\ Alone(c) /\ SessionGoes(c)
  BY <1>3, QuitShows DEF FoundReq, Reqs
<1>4. ASSUME NEW c \in Reqs, FoundWs(c, e.id), ws_queue_close(c)
      PROVE  c \in WsReqs /\ Alone(c) /\ SessionGoes(c)
  <2>1. Linked(c) /\ quits' = quits
    BY <1>4 DEF FoundWs, ws_queue_close
  <2>2. CASE ws_close(c)
    BY <2>1, <2>2, ClosedShows
  <2>3. CASE /\ cws[c].sat = "open" /\ cws' = [cws EXCEPT ![c].sat = "closing"]
             /\ PlanNothing /\ UNCHANGED <<creq, net>>
    BY <2>1, <2>3, FramesShow
  <2> QED
    BY <1>4, <2>2, <2>3 DEF ws_queue_close
<1>5. ASSUME NEW c \in Reqs, FoundWs(c, e.id), ws_send_message(c)
      PROVE  c \in WsReqs /\ Alone(c) /\ SessionGoes(c)
  <2>1. Linked(c) /\ quits' = quits
    BY <1>5 DEF FoundWs, ws_send_message
  <2>2. CASE ws_close(c)
    BY <2>1, <2>2, ClosedShows
  <2>3. CASE PlanNothing /\ UNCHANGED <<creq, cws, net>>
    BY <2>1, <2>3, FramesShow
  <2> QED
    BY <1>5, <2>2, <2>3 DEF ws_send_message
<1>6. CASE Ignored(e) /\ PlanNothing
           /\ UNCHANGED <<creq, cws, net, births, quits, fault>>
  BY <1>6 DEF Ignored
<1>7. ASSUME e.tag = "cancel-request",
             \E c \in Reqs : FoundReq(c, e.id) /\ creq_quit(c)
      PROVE  \/ \E c \in PlainReqs : /\ FoundReq(c, e.id)
                                     /\ Alone(c) /\ RequestQuits(c)
             \/ \E c \in WsReqs : Goes(c)
  BY <1>0, <1>3, <1>7
<1>8. ASSUME \/ \E c \in Reqs : FoundWs(c, e.id) /\ ws_queue_close(c)
             \/ \E c \in Reqs : FoundWs(c, e.id) /\ ws_send_message(c)
      PROVE  \E c \in WsReqs : Goes(c)
  BY <1>0, <1>4, <1>5, <1>8
<1> QED
  BY <1>1, <1>2, <1>6, <1>7, <1>8 DEF cttp_ef_http_client

=============================================================================
