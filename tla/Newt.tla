--------------------------------- MODULE Newt ---------------------------------
(***************************************************************************)
(* The framing of messages between the king and the serf, src/vere/pkg/    *)
(* vere/newt.c.  A message is sent as a byte 0, its length in LenBytes     *)
(* bytes, the least significant first, and its body.  The pipe delivers    *)
(* bytes in pieces of any size; u3_newt_decode() puts messages together    *)
(* again and the moat offers them to its owner one by one, who may refuse  *)
(* one for now (u3_mars_kick).                                             *)
(***************************************************************************)
EXTENDS Naturals, Sequences, SequencesExt

CONSTANTS
    Base,       \* values of a byte (256 in the code)
    LenBytes,   \* bytes of a length (4 in the code)
    Messages,   \* the messages that are sent: sequences of bytes
    MaxSent     \* bound: messages sent

Bytes == 0 .. Base - 1

ASSUME BaseAssumption == Base \in Nat \ {0, 1}
\* A body is the jam of a noun: never empty, and of a length a header can hold.
ASSUME MessagesAssumption ==
    \A m \in Messages : /\ Len(m) \in 1 .. Base ^ LenBytes - 1
                        /\ \A i \in 1 .. Len(m) : m[i] \in Bytes

VARIABLES
    sent,       \* history: the messages sent
    pipe,       \* bytes written and not yet read
    mes,        \* mes_u: the message being read
    moat,       \* ext_u: complete messages not yet taken
    got,        \* history: the messages taken
    bad         \* the stream was found to be no sequence of messages

vars == <<sent, pipe, mes, moat, got, bad>>

HeadLen == 1 + LenBytes

\* u3_mess_head with the bytes read; u3_mess_tail with the length awaited.
AwaitHead == [sat |-> "head", buf |-> <<>>, len |-> 0]
AwaitTail(n) == [sat |-> "tail", buf |-> <<>>, len |-> n]

Init ==
    /\ sent = <<>> /\ pipe = <<>> /\ mes = AwaitHead
    /\ moat = <<>> /\ got = <<>> /\ bad = FALSE

-----------------------------------------------------------------------------

\* The header u3_newt_send() writes.
Header(n) == <<0>> \o [k \in 1 .. LenBytes |-> (n \div Base ^ (k - 1)) % Base]

\* The length a header holds.
RECURSIVE LengthIn(_)
LengthIn(bs) == IF bs = <<>> THEN 0 ELSE bs[1] + Base * LengthIn(Tail(bs))

Take(n, s) == SubSeq(s, 1, IF Len(s) < n THEN Len(s) ELSE n)
Drop(n, s) == SubSeq(s, n + 1, Len(s))

\* u3_newt_decode(): one turn of the loop reads a header, or a body, or as much
\* of it as there is.
RECURSIVE Decode(_, _, _)
Decode(m, q, bs) ==
    LET want == (IF m.sat = "head" THEN HeadLen ELSE m.len) - Len(m.buf)
        buf == m.buf \o Take(want, bs)
        rest == Drop(want, bs)
        len == LengthIn(Tail(buf)) IN
    IF bs = <<>> THEN [mes |-> m, moat |-> q, bad |-> FALSE]
    ELSE IF Len(bs) < want
    THEN [mes |-> [m EXCEPT !.buf = buf], moat |-> q, bad |-> FALSE]
    ELSE IF m.sat = "tail" THEN Decode(AwaitHead, Append(q, buf), rest)
    ELSE IF buf[1] # 0 \/ len = 0
    THEN [mes |-> m, moat |-> q, bad |-> TRUE]
    ELSE Decode(AwaitTail(len), q, rest)

\* _newt_meat_poke() on the messages q: the first is offered, and gone when the
\* owner took it.
Poke(q) ==
    \/ q # <<>> /\ got' = Append(got, Head(q)) /\ moat' = Tail(q)
    \/ UNCHANGED got /\ moat' = q

-----------------------------------------------------------------------------

u3_newt_send(m) ==
    /\ Len(sent) < MaxSent
    /\ sent' = Append(sent, m)
    /\ pipe' = pipe \o Header(Len(m)) \o m
    /\ UNCHANGED <<mes, moat, got, bad>>

\* Mutant: what was read of a message is forgotten.
_newt_read_cb_Fresh(n) ==
    LET r == Decode(AwaitHead, moat, SubSeq(pipe, 1, n)) IN
    /\ ~bad
    /\ pipe' = Drop(n, pipe)
    /\ mes' = r.mes
    /\ bad' = r.bad
    /\ Poke(r.moat)
    /\ UNCHANGED sent

\* _newt_read_cb() is given the next n bytes.
_newt_read_cb(n) ==
    LET r == Decode(mes, moat, SubSeq(pipe, 1, n)) IN
    /\ ~bad
    /\ pipe' = Drop(n, pipe)
    /\ mes' = r.mes
    /\ bad' = r.bad
    /\ Poke(r.moat)
    /\ UNCHANGED sent

\* Mutant: a last message waits for the next read.
_newt_meat_next_cb_NotLast ==
    /\ Len(moat) > 1
    /\ Poke(moat)
    /\ UNCHANGED <<sent, pipe, mes, bad>>

\* The timer that is started with every offer.
_newt_meat_next_cb ==
    /\ moat # <<>>
    /\ Poke(moat)
    /\ UNCHANGED <<sent, pipe, mes, bad>>

Next ==
    \/ \E m \in Messages : u3_newt_send(m)
    \/ \E n \in 1 .. Len(pipe) : _newt_read_cb(n)
    \/ _newt_meat_next_cb

\* The pipe delivers, and an owner that is offered a message again and again
\* takes it in the end.
Fairness ==
    /\ WF_vars(\E n \in 1 .. Len(pipe) : _newt_read_cb(n))
    /\ WF_vars(_newt_meat_next_cb /\ got' # got)

Spec == Init /\ [][Next]_vars /\ Fairness

-----------------------------------------------------------------------------
(* Properties. *)

\* The messages a sequence of bytes stands for, by the shape of a frame alone.
RECURSIVE Frames(_)
Frames(bs) ==
    IF Len(bs) < HeadLen THEN <<>>
    ELSE LET n == LengthIn(SubSeq(bs, 2, HeadLen)) IN
         IF Len(bs) < HeadLen + n THEN <<>>
         ELSE <<SubSeq(bs, HeadLen + 1, HeadLen + n)>> \o Frames(Drop(HeadLen + n, bs))

\* What is read of the message under way, as it was on the wire.
Partial == IF mes.sat = "head" THEN mes.buf ELSE Header(mes.len) \o mes.buf

\* u3_newt_decode(): wherever the pipe cuts the bytes, the messages taken, those
\* in the moat and those still on the wire are the messages sent, in order.
NothingLost == got \o moat \o Frames(Partial \o pipe) = sent

\* _newt_meat_poke(): what is sent is taken, also when nothing follows it.
Delivered == \A k \in 1 .. MaxSent : Len(sent) >= k ~> Len(got) >= k

=============================================================================
