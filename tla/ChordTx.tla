------------------------------ MODULE ChordTx ------------------------------
(***************************************************************************)
(* The deferral ring as its users see it: pushes by the button routing,    *)
(* the drain at the top of a tick and the purge of a flush, in any order.  *)
(***************************************************************************)
EXTENDS ChordRing

CONSTANTS
    Voices,     \* the notes of the messages
    MaxPending  \* bound on the messages pending, RingSize for none

VARIABLES
    queued,  \* g_chord_tx: the messages pending
    taken    \* what the last drain returned, <<>> after any other call

tx_vars == <<queued, taken>>

TxMessages == {On(n) : n \in Voices} \cup {Off(n) : n \in Voices}

TxInit == queued = <<>> /\ taken = <<>>

Push(m) ==
    /\ Len(queued) < MaxPending
    /\ queued' = Pushed(queued, m)
    /\ taken' = <<>>

TxDrain ==
    /\ queued' = Drained(queued).q
    /\ taken' = Drained(queued).out

\* chord_tx_init
Purge == queued' = <<>> /\ taken' = <<>>

TxNext == TxDrain \/ Purge \/ \E m \in TxMessages : Push(m)

TxSpec == TxInit /\ [][TxNext]_tx_vars

-----------------------------------------------------------------------------
(* Properties.                                                             *)

\* The messages of one kind, in their order.
OfKind(q, off) ==
    LET kept[k \in 0 .. Len(q)] ==
            IF k = 0 THEN <<>>
            ELSE IF q[k].off = off THEN Append(kept[k - 1], q[k]) ELSE kept[k - 1]
    IN  kept[Len(q)]

QUEUE == INSTANCE ChordQueue WITH
    Messages <- TxMessages, offs <- OfKind(queued, TRUE), ons <- OfKind(queued, FALSE),
    sent <- taken

\* While fewer messages are pending than the ring has cells, it is a queue:
\* no message lost, doubled or overtaken by one of its kind, whatever mix of
\* Offs and Ons a drain met and left behind, and a drain always gets on.
ImplementsChordQueue == QUEUE!Spec
=============================================================================
