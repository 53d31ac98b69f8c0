--------------------------- MODULE WsClientSession ---------------------------
(***************************************************************************)
(* What the runtime promises the kernel of a websocket session it opens as *)
(* a client: it is accepted at most once, frames are reported only while   *)
(* it is open, and every session that was asked for ends with exactly one  *)
(* report, %reject before it opened or %disconnect.                        *)
(***************************************************************************)
CONSTANT Sessions

VARIABLES
    st,      \* state of every session
    heard    \* what the kernel is told of sessions in this step

vars == <<st, heard>>

Init ==
    /\ st = [s \in Sessions |-> "idle"]
    /\ heard = {}

\* Session s, in one of the states from, goes to a state, and the kernel hears.
Step(s, from, to, event) ==
    /\ st[s] \in from
    /\ st' = [st EXCEPT ![s] = to]
    /\ heard' = {<<s, event>>}

Ask(s) ==
    /\ st[s] = "idle"
    /\ st' = [st EXCEPT ![s] = "asked"]
    /\ heard' = {}

Accept(s) == Step(s, {"asked"}, "open", "accept")

\* A handshake that fails on the spot is never seen waiting.
Reject(s) == Step(s, {"idle", "asked"}, "over", "reject")

Frame(s) == Step(s, {"open"}, "open", "message")

\* The peer or the kernel ends it; the kernel may do so before it opened.
End(s) == Step(s, {"asked", "open"}, "over", "disconnect")

Quiet == heard' = {} /\ UNCHANGED st

Next ==
    \/ Quiet
    \/ \E s \in Sessions : Ask(s) \/ Accept(s) \/ Reject(s) \/ Frame(s) \/ End(s)

Spec == Init /\ [][Next]_vars

=============================================================================
