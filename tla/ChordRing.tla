----------------------------- MODULE ChordRing -----------------------------
(***************************************************************************)
(* The deferral ring of the chord engine (chord_engine.c): a push and the  *)
(* drain that each tick of the control loop starts with.  No operation     *)
(* moves the ring's head, so its content is the sequence of the cells from *)
(* the first to the tail; the tail meets the head when the ring is empty   *)
(* and when it is full.                                                    *)
(***************************************************************************)
EXTENDS Integers, Sequences, SequencesExt

CONSTANTS
    RingSize,  \* CHORD_TX_RING
    Budget     \* CHORD_TX_BUDGET

ASSUME RingAssumption == RingSize \in Nat \ {0} /\ Budget \in Nat \ {0}

\* A message is a Note-On or a Note-Off of a note.
On(n) == [off |-> FALSE, note |-> n]
Off(n) == [off |-> TRUE, note |-> n]

\* chord_tx_push: a message the ring has no room for is dropped.
Pushed(q, m) == IF Len(q) < RingSize THEN Append(q, m) ELSE q

\* The pushes of ms one after the other.
PushedAll(q, ms) ==
    LET room == RingSize - Len(q)
    IN  q \o SubSeq(ms, 1, IF Len(ms) < room THEN Len(ms) ELSE room)

\* Mutant: the neighbour is removed.
CompactedNext(q, i) == IF i < Len(q) THEN RemoveAt(q, i + 1) ELSE Front(q)

\* The compaction after a message is taken.  It stops when it reaches the
\* tail, so for the first cell of a full ring it does nothing and the step
\* back of the tail cuts off the last message instead.
Compacted(q, i) == IF i = 1 /\ Len(q) = RingSize THEN Front(q) ELSE RemoveAt(q, i)

\* One turn of the loop of a pass, at cell i.  Taking a message counts twice:
\* it lowers the total and it raises the number scanned.
Turn(st, want) ==
    IF st.scanned >= st.total \/ Len(st.out) >= Budget THEN st
    ELSE IF st.q[st.i].off = want
         THEN [q |-> Compacted(st.q, st.i), i |-> st.i, out |-> Append(st.out, st.q[st.i]),
               scanned |-> st.scanned + 1, total |-> st.total - 1]
         ELSE [st EXCEPT !.i = @ + 1, !.scanned = @ + 1]

Pass(st, want) ==
    LET after[k \in 0 .. Len(st.q)] ==
            IF k = 0 THEN [st EXCEPT !.i = 1, !.scanned = 0, !.total = Len(st.q)]
            ELSE Turn(after[k - 1], want)
    IN  after[Len(st.q)]

\* chord_tx_drain: a pass for the Offs, then one for the Ons.
Drained(q) ==
    Pass(Pass([q |-> q, i |-> 1, out |-> <<>>, scanned |-> 0, total |-> 0], TRUE), FALSE)
=============================================================================
