----------------------------- MODULE WsSession ------------------------------
(***************************************************************************)
(* What the runtime promises of a websocket session it serves, to the peer *)
(* and to the kernel: asked for once, open at most once, frames reported   *)
(* only while it is open, and the end of an open session reported at most  *)
(* once, at that end.  The kernel itself, or a change of configuration, may*)
(* end a session without a report.                                         *)
(***************************************************************************)
CONSTANT Sessions

VARIABLES
    st,      \* state of every session
    heard    \* what the kernel is told of sessions in this step

vars == <<st, heard>>

Init ==
    /\ st = [s \in Sessions |-> "idle"]
    /\ heard = {}

\* Session s goes from one state to another, and the kernel hears of it.
Step(s, from, to, event) ==
    /\ st[s] = from
    /\ st' = [st EXCEPT ![s] = to]
    /\ heard' = {<<s, event>>}

Ask(s) == Step(s, "idle", "asked", "websocket-handshake")

Frame(s) == Step(s, "open", "open", "message")

PeerEnds(s) == Step(s, "open", "over", "disconnect")

\* The agent accepts.
Open(s) ==
    /\ st[s] = "asked"
    /\ st' = [st EXCEPT ![s] = "open"]
    /\ heard' = {}

\* Some sessions end unreported: refused, abandoned by their peer before they
\* opened, or closed from this side.
End(S) ==
    /\ \A s \in S : st[s] \in {"asked", "open"}
    /\ st' = [s \in Sessions |-> IF s \in S THEN "over" ELSE st[s]]
    /\ heard' = {}

Next ==
    \/ \E s \in Sessions : Ask(s) \/ Open(s) \/ Frame(s) \/ PeerEnds(s)
    \/ \E S \in SUBSET Sessions : End(S)

Spec == Init /\ [][Next]_vars

=============================================================================
