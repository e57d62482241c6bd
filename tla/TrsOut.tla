------------------------------- MODULE TrsOut -------------------------------
(***************************************************************************)
(* The TRS output (midi_out.c): a two-tier byte ring (midi_rt_ring.c) that *)
(* three producers fill and the UART's transmit interrupt drains.          *)
(*   - The control loop sends messages, a panic being a burst of them.     *)
(*   - The USB thread, which preempts the loop, forwards the host's        *)
(*     messages and real-time bytes.                                       *)
(*   - The clock timer's interrupt emits ticks.                            *)
(* What happens under irq_lock is one step.  A producer in a thread        *)
(* enables the transmit interrupt after it has let go of the lock, a step  *)
(* of its own; both interrupts have the same priority, so neither cuts     *)
(* into the other.                                                         *)
(***************************************************************************)
EXTENDS Integers, SequencesExt, FiniteSetsExt

CONSTANTS
    RtSlots,      \* slots of the real-time tier, 8
    NbSlots,      \* slots of the normal tier, 128
    MainLengths,  \* lengths of the messages the control loop sends
    ThruLengths,  \* lengths of the messages forwarded for the host
    HostClocks,   \* the real-time bytes the host sends
    PanicSize,    \* messages of a panic, 48
    Tick, Idle    \* the generator's clock byte; nothing on the line

ASSUME TrsAssumption ==
    /\ RtSlots \in Nat \ {0} /\ NbSlots \in Nat \ {0} /\ PanicSize \in Nat
    /\ MainLengths \subseteq 1 .. 3 /\ ThruLengths \subseteq 1 .. 3

VARIABLES
    rt,      \* the real-time tier
    nb,      \* the normal tier
    tx_irq,  \* the transmit interrupt is enabled
    line,    \* the byte the UART is shifting out
    pc,      \* of a thread: "idle", or "kick" before uart_irq_tx_enable
    panic    \* messages of a panic still to send

vars == <<rt, nb, tx_irq, line, pc, panic>>

Threads == {"main", "usb"}
Clocks == HostClocks \cup {Tick}

Byte(n, i) == [len |-> n, pos |-> i]
Message(n) == [i \in 1 .. n |-> Byte(n, i)]

\* One slot is kept open, so (head - tail - 1) & mask is what is left of the
\* others.
Fits(n) == Len(nb) + n <= NbSlots - 1

\* midi_rt_put_msg: the whole message or nothing of it.
PutMsg(n) == nb' = IF Fits(n) THEN nb \o Message(n) ELSE nb

\* midi_rt_put_rt
PutRt(b) == rt' = IF Len(rt) < RtSlots - 1 THEN Append(rt, b) ELSE rt

\* Mutant: the normal tier first.
NextByteFair ==
    IF nb # <<>>
    THEN line' = Head(nb) /\ nb' = Tail(nb) /\ UNCHANGED rt
    ELSE line' = Head(rt) /\ rt' = Tail(rt) /\ UNCHANGED nb

\* What the interrupt takes next, as midi_rt_next.
NextByte ==
    IF rt # <<>>
    THEN line' = Head(rt) /\ rt' = Tail(rt) /\ UNCHANGED nb
    ELSE line' = Head(nb) /\ nb' = Tail(nb) /\ UNCHANGED rt

Empty == rt = <<>> /\ nb = <<>>

-----------------------------------------------------------------------------
(* The control loop and the USB thread.  The loop has the processor only   *)
(* while the USB thread has nothing to do.                                 *)

Init ==
    /\ rt = <<>> /\ nb = <<>>
    /\ tx_irq = FALSE
    /\ line = Idle
    /\ pc = [t \in Threads |-> "idle"]
    /\ panic = 0

MayRun(t) == t = "main" => pc["usb"] = "idle"

\* trs_enqueue_msg up to its unlock
EnqueueMsg(t, n) ==
    /\ MayRun(t) /\ pc[t] = "idle"
    /\ PutMsg(n)
    /\ pc' = [pc EXCEPT ![t] = "kick"]
    /\ UNCHANGED <<rt, tx_irq, line>>

\* trs_send
MainSend(n) ==
    /\ panic = 0
    /\ EnqueueMsg("main", n)
    /\ UNCHANGED panic

\* The panic combo, then its messages one after another.
Panic ==
    /\ MayRun("main") /\ pc["main"] = "idle" /\ panic = 0
    /\ panic' = PanicSize
    /\ UNCHANGED <<rt, nb, tx_irq, line, pc>>

PanicSend ==
    /\ panic > 0
    /\ EnqueueMsg("main", 3)
    /\ panic' = panic - 1

\* midi_out_thru
ThruSend(n) == EnqueueMsg("usb", n) /\ UNCHANGED panic

\* Mutant: the interrupt is enabled first.
HostRtEarly(b) ==
    /\ pc["usb"] = "idle"
    /\ PutRt(b)
    /\ UNCHANGED <<nb, tx_irq, line, pc, panic>>

\* midi_out_rt in the USB thread, up to its unlock
HostRt(b) ==
    /\ pc["usb"] = "idle"
    /\ PutRt(b)
    /\ pc' = [pc EXCEPT !["usb"] = "kick"]
    /\ UNCHANGED <<nb, tx_irq, line, panic>>

\* uart_irq_tx_enable
Kick(t) ==
    /\ MayRun(t) /\ pc[t] = "kick"
    /\ tx_irq' = TRUE
    /\ pc' = [pc EXCEPT ![t] = "idle"]
    /\ UNCHANGED <<rt, nb, line, panic>>

-----------------------------------------------------------------------------
(* Interrupts and the line.                                                *)

\* tick_top: midi_out_rt in the timer's interrupt
TimerTick ==
    /\ PutRt(Tick)
    /\ tx_irq' = TRUE
    /\ UNCHANGED <<nb, line, pc, panic>>

\* trs_uart_isr: the UART holds one byte, so a loop that has filled it ends.
TxIsr ==
    /\ tx_irq /\ line = Idle
    /\ IF Empty THEN tx_irq' = FALSE /\ UNCHANGED <<rt, nb, line>>
                ELSE NextByte /\ UNCHANGED tx_irq
    /\ UNCHANGED <<pc, panic>>

\* The byte has left.
LineDone ==
    /\ line # Idle
    /\ line' = Idle
    /\ UNCHANGED <<rt, nb, tx_irq, pc, panic>>

Offer ==
    \/ \E n \in MainLengths : MainSend(n)
    \/ Panic \/ PanicSend
    \/ \E n \in ThruLengths : ThruSend(n)
    \/ \E b \in HostClocks : HostRt(b)
    \/ TimerTick

Deliver == TxIsr \/ LineDone \/ \E t \in Threads : Kick(t)

Next == Offer \/ Deliver

Spec == Init /\ [][Next]_vars

\* The interrupt fires when it is due, the line moves on, and a thread that
\* nothing of higher priority keeps from running goes on.
FairSpec ==
    /\ Spec
    /\ WF_vars(TxIsr) /\ WF_vars(LineDone)
    /\ \A t \in Threads : WF_vars(Kick(t))

-----------------------------------------------------------------------------
(* Properties.                                                             *)

Bytes == {Byte(n, i) : n \in MainLengths \cup ThruLengths \cup {3}, i \in 1 .. 3}

TypeOK ==
    /\ rt \in Seq(Clocks) /\ Len(rt) < RtSlots
    /\ nb \in Seq(Bytes) /\ Len(nb) < NbSlots
    /\ tx_irq \in BOOLEAN
    /\ line \in Bytes \cup Clocks \cup {Idle}
    /\ pc \in [Threads -> {"idle", "kick"}]
    /\ panic \in 0 .. PanicSize

\* No byte waits in the ring while nobody is going to send it: the interrupt
\* is enabled or a thread is about to enable it, however the enabling of one
\* producer, the disabling by the interrupt and another producer's bytes
\* interleave.
NothingStranded == Empty \/ tx_irq \/ \E t \in Threads : pc[t] = "kick"

\* Whatever the interrupt has taken already, the ring ends each message that it
\* holds a byte of, and the next begins right after: a near-full ring drops
\* messages whole and producers do not interleave within one.
RingIsWhole ==
    \A i \in 1 .. Len(nb) :
        IF nb[i].pos < nb[i].len
        THEN i < Len(nb) /\ nb[i + 1] = Byte(nb[i].len, nb[i].pos + 1)
        ELSE i < Len(nb) => nb[i + 1].pos = 1

\* The bytes at the head of the normal tier that go on with the message on
\* the line, and the messages that begin behind them: the k-th begins at the
\* place with k beginnings up to it.
Begins == {i \in 1 .. Len(nb) : nb[i].pos = 1}
Rest == IF Begins = {} THEN nb ELSE SubSeq(nb, 1, Min(Begins) - 1)
Place(S, k) == CHOOSE i \in S : Cardinality({j \in S : j <= i}) = k
Whole == [k \in 1 .. Cardinality(Begins) |-> nb[Place(Begins, k)].len]

WIRE == INSTANCE MidiWire WITH
    Lengths <- MainLengths \cup ThruLengths \cup {3},
    urgent <- rt, queue <- Whole, rest <- Rest

\* Messages reach the line whole, in order, with nothing but real-time bytes
\* between their bytes, and real-time bytes go first, whichever producers
\* interleave and whatever finds no room.
ImplementsMidiWire == WIRE!Spec

\* Once the producers fall silent, all that was accepted gets sent.
QuietDrains == <>[][Deliver]_vars => <>[]Empty
=============================================================================
