------------------------------ MODULE MidiWire ------------------------------
(***************************************************************************)
(* What the TRS output promises its callers: the line carries the          *)
(* messages it accepted, whole and in their order, one byte after another; *)
(* only a real-time byte may come between two bytes of a message, and a    *)
(* real-time byte waits for nothing but the byte on the line and the       *)
(* real-time bytes before it.                                              *)
(***************************************************************************)
EXTENDS Integers, Sequences

CONSTANTS
    Clocks,   \* the real-time bytes
    Lengths,  \* the lengths of messages
    Idle      \* nothing on the line

VARIABLES
    urgent,  \* the real-time bytes waiting
    queue,   \* the messages waiting
    rest,    \* bytes of the message being sent that are still to come
    line     \* what is on the line

wvars == <<urgent, queue, rest, line>>

\* A byte of a message of length n, the i-th.
Byte(n, i) == [len |-> n, pos |-> i]

Init == urgent = <<>> /\ queue = <<>> /\ rest = <<>> /\ line = Idle

AcceptUrgent(b) ==
    /\ urgent' = Append(urgent, b)
    /\ UNCHANGED <<queue, rest, line>>

Accept(n) ==
    /\ queue' = Append(queue, n)
    /\ UNCHANGED <<urgent, rest, line>>

SendUrgent ==
    /\ line = Idle /\ urgent # <<>>
    /\ line' = Head(urgent) /\ urgent' = Tail(urgent)
    /\ UNCHANGED <<queue, rest>>

SendNext ==
    /\ line = Idle /\ urgent = <<>> /\ rest # <<>>
    /\ line' = Head(rest) /\ rest' = Tail(rest)
    /\ UNCHANGED <<urgent, queue>>

SendFirst ==
    /\ line = Idle /\ urgent = <<>> /\ rest = <<>> /\ queue # <<>>
    /\ line' = Byte(Head(queue), 1)
    /\ rest' = [i \in 1 .. Head(queue) - 1 |-> Byte(Head(queue), i + 1)]
    /\ queue' = Tail(queue)
    /\ UNCHANGED urgent

Sent == line # Idle /\ line' = Idle /\ UNCHANGED <<urgent, queue, rest>>

Next ==
    \/ \E b \in Clocks : AcceptUrgent(b)
    \/ \E n \in Lengths : Accept(n)
    \/ SendUrgent \/ SendNext \/ SendFirst \/ Sent

Spec == Init /\ [][Next]_wvars
=============================================================================
