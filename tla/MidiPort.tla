------------------------------ MODULE MidiPort ------------------------------
(***************************************************************************)
(* What a MIDI port promises its host: events arrive in the order they     *)
(* were sent, none twice, and none is lost on the way while the port is    *)
(* up.  An event may be refused when it is sent; that is no step here.     *)
(***************************************************************************)
EXTENDS Integers, SequencesExt

CONSTANT Events

VARIABLES
    queue,  \* events accepted, not yet with the host
    up      \* the host has the port in use

vars == <<queue, up>>

Init == queue = <<>> /\ up = FALSE

Accept(e) == queue' = Append(queue, e) /\ UNCHANGED up

\* The host reads the oldest events.
Deliver(n) ==
    /\ up
    /\ queue' = SubSeq(queue, n + 1, Len(queue))
    /\ UNCHANGED up

\* While the port is down a run of events may be lost, and what is left keeps
\* its order.
Lose(i, n) ==
    /\ ~up
    /\ queue' = SubSeq(queue, 1, i) \o SubSeq(queue, i + n + 1, Len(queue))
    /\ UNCHANGED up

UpOrDown == up' = ~up /\ UNCHANGED queue

Next ==
    \/ \E e \in Events : Accept(e)
    \/ \E n \in 1 .. Len(queue) : Deliver(n)
    \/ \E i \in 0 .. Len(queue), n \in 1 .. Len(queue) : i + n <= Len(queue) /\ Lose(i, n)
    \/ UpOrDown

Spec == Init /\ [][Next]_vars
=============================================================================
