------------------------------- MODULE EventLog -------------------------------
(***************************************************************************)
(* What the event pipeline promises whoever relies on a ship: there is one *)
(* log, it only grows, an event is in it once, and the effects of events   *)
(* are applied one by one in the order of the log and never before their   *)
(* event is in it.  A new king first learns how long the log is, and gives *)
(* up the effects nobody had applied.                                      *)
(***************************************************************************)
EXTENDS Naturals, Sequences, SequencesExt

VARIABLES
    log,        \* the events that survive everything
    applied     \* events the king has dealt with; 0 until it knows the log

Init == log = <<>> /\ applied = 0

Commit ==
    /\ Len(log) < Len(log')
    /\ IsPrefix(log, log')
    /\ IsInjective(log')
    /\ UNCHANGED applied

Apply == applied < Len(log) /\ applied' = applied + 1 /\ UNCHANGED log

Restart == applied' = 0 /\ UNCHANGED log

Recover == applied = 0 /\ applied' = Len(log) /\ UNCHANGED log

Next == Commit \/ Apply \/ Restart \/ Recover

Spec == Init /\ [][Next]_<<log, applied>>

=============================================================================
