------------------------------ MODULE UsbMidi ------------------------------
(***************************************************************************)
(* The USB-MIDI function (usb_midi1.c).  The control loop puts events into *)
(* a ring; a work item empties the ring into one transfer buffer at a time *)
(* and hands it to the USB stack, several transfers being under way at     *)
(* once; the host reads them, or a disable or a suspend aborts them.  For  *)
(* what the host sends, one more buffer of the same pool is armed for      *)
(* reading.                                                                *)
(*   - The loop is preemptible: its test of enabled, its put and its       *)
(*     scheduling of the work are three steps.                             *)
(*   - The work item runs on the system work queue; the stack may run      *)
(*     between its filling a buffer and the enqueueing.                    *)
(*   - The class callbacks run in the USB thread, one step each.  The      *)
(*     stack reports all aborted transfers before it enables or resumes    *)
(*     the class.                                                          *)
(***************************************************************************)
EXTENDS Integers, SequencesExt

CONSTANTS
    Events,   \* USB-MIDI events
    Slots,    \* events the ring holds, 16
    Buffers   \* buffers of the pool, 4

\* One buffer for the host's stream, and one at least for ours.
ASSUME UsbMidiAssumption ==
    Slots \in Nat \ {0} /\ Buffers \in Nat /\ Buffers >= 2

VARIABLES
    pc,         \* the loop's place in usb_midi1_send: "idle", "put", "kick"
    tx_queue,   \* the ring
    pending,    \* tx_work is queued
    taken,      \* the buffer tx_work has filled and not yet enqueued; <<>> if none
    sending,    \* the IN transfers under way, in their order
    armed,      \* OUT transfers under way
    free,       \* buffers left in the pool
    enabled,    \* data->enabled
    suspended,  \* the host has suspended a device it had enabled
    lost        \* since the port was enabled, a read has ended under suspend or
                \* has been refused

vars == <<pc, tx_queue, pending, taken, sending, armed, free, enabled, suspended, lost>>

port == <<enabled, suspended, lost>>

Init ==
    /\ pc = "idle" /\ tx_queue = <<>> /\ pending = FALSE
    /\ taken = <<>> /\ sending = <<>> /\ armed = 0
    /\ free = Buffers
    /\ enabled = FALSE /\ suspended = FALSE /\ lost = FALSE

-----------------------------------------------------------------------------
(* The control loop: usb_midi1_send.                                       *)

\* No host has enabled the interface: the event is dropped, nothing changes.
Send ==
    /\ pc = "idle" /\ enabled
    /\ pc' = "put"
    /\ UNCHANGED <<tx_queue, pending, taken, sending, armed, free, port>>

\* A full ring drops the event.
Put(e) ==
    /\ pc = "put"
    /\ IF Len(tx_queue) < Slots
       THEN tx_queue' = Append(tx_queue, e) /\ pc' = "kick"
       ELSE pc' = "idle" /\ UNCHANGED tx_queue
    /\ UNCHANGED <<pending, taken, sending, armed, free, port>>

Kick ==
    /\ pc = "kick"
    /\ pending' = TRUE
    /\ pc' = "idle"
    /\ UNCHANGED <<tx_queue, taken, sending, armed, free, port>>

-----------------------------------------------------------------------------
(* The work item: usb_midi1_tx_work.                                       *)

\* Nothing to send, or no buffer: a completion will schedule the work again.
WorkSkip ==
    /\ pending /\ taken = <<>>
    /\ tx_queue = <<>> \/ free = 0
    /\ pending' = FALSE
    /\ UNCHANGED <<pc, tx_queue, taken, sending, armed, free, port>>

\* Mutant: the buffer is shorter than the ring.
WorkTakeShort ==
    /\ pending /\ taken = <<>>
    /\ tx_queue # <<>> /\ free > 0
    /\ pending' = FALSE
    /\ free' = free - 1
    /\ taken' = <<Head(tx_queue)>>
    /\ tx_queue' = <<>>
    /\ UNCHANGED <<pc, sending, armed, port>>

\* A buffer takes all that the ring holds.
WorkTake ==
    /\ pending /\ taken = <<>>
    /\ tx_queue # <<>> /\ free > 0
    /\ pending' = FALSE
    /\ free' = free - 1
    /\ taken' = tx_queue
    /\ tx_queue' = <<>>
    /\ UNCHANGED <<pc, sending, armed, port>>

\* usbd_ep_enqueue: an enabled endpoint accepts, an unconfigured one refuses,
\* a suspended one may do either.
WorkEnqueue ==
    /\ taken # <<>>
    /\ enabled \/ suspended
    /\ sending' = Append(sending, taken)
    /\ taken' = <<>>
    /\ UNCHANGED <<pc, tx_queue, pending, armed, free, port>>

\* Refused: the buffer goes back, its events are lost.
WorkRefused ==
    /\ taken # <<>>
    /\ ~enabled
    /\ taken' = <<>>
    /\ free' = free + 1
    /\ UNCHANGED <<pc, tx_queue, pending, sending, armed, port>>

-----------------------------------------------------------------------------
(* The class callbacks.                                                    *)

\* Mutant: a completion does not look at the ring.
InRequestQuiet ==
    /\ sending # <<>>
    /\ sending' = Tail(sending)
    /\ free' = free + 1
    /\ UNCHANGED <<pc, tx_queue, pending, taken, armed, port>>

\* usb_midi1_request of an IN transfer, completed or aborted.
InRequest ==
    /\ sending # <<>>
    /\ sending' = Tail(sending)
    /\ pending' = (pending \/ tx_queue # <<>>)
    /\ free' = free + 1
    /\ UNCHANGED <<pc, tx_queue, taken, armed, port>>

InDone == enabled /\ InRequest

\* Where the port is not up, a disable or a suspend has aborted it.
InAborted == ~enabled /\ InRequest

\* usb_midi1_out_prep with f buffers left and a reads armed: without a buffer, or
\* refused by the stack, which may refuse any read, none is armed.
OutPrep(f, a, ok) ==
    IF f > 0 /\ ok THEN free' = f - 1 /\ armed' = a + 1
                   ELSE free' = f /\ armed' = a

\* Mutant: the read is armed before its buffer is back, and only if one is left.
OutDoneEarly ==
    /\ armed > 0 /\ enabled
    /\ \E ok \in BOOLEAN :
          /\ IF free > 0 /\ ok THEN UNCHANGED <<armed, free>>
                             ELSE armed' = armed - 1 /\ free' = free + 1
          /\ lost' = (lost \/ ~ok)
    /\ UNCHANGED <<pc, tx_queue, pending, taken, sending, enabled, suspended>>

\* usb_midi1_request of an OUT transfer that has brought the host's events: its
\* buffer goes back, and a read is armed again.
OutDone ==
    /\ armed > 0 /\ enabled
    /\ \E ok \in BOOLEAN : OutPrep(free + 1, armed - 1, ok) /\ lost' = (lost \/ ~ok)
    /\ UNCHANGED <<pc, tx_queue, pending, taken, sending, enabled, suspended>>

\* usb_midi1_request of an OUT transfer where the port is not up, aborted by a
\* disable or a suspend or completed under it: the buffer goes back, and no read
\* is armed.
OutEnded ==
    /\ armed > 0 /\ ~enabled
    /\ armed' = armed - 1
    /\ free' = free + 1
    /\ lost' = (lost \/ suspended)
    /\ UNCHANGED <<pc, tx_queue, pending, taken, sending, enabled, suspended>>

\* usb_midi1_enable: arm a read, flush what is in the ring.
Enable ==
    /\ ~enabled /\ ~suspended
    /\ sending = <<>> /\ armed = 0
    /\ enabled' = TRUE
    /\ \E ok \in BOOLEAN : OutPrep(free, armed, ok) /\ lost' = ~ok
    /\ pending' = (pending \/ tx_queue # <<>>)
    /\ UNCHANGED <<pc, tx_queue, taken, sending, suspended>>

\* usb_midi1_disable
Disable ==
    /\ enabled \/ suspended
    /\ enabled' = FALSE /\ suspended' = FALSE
    /\ UNCHANGED <<pc, tx_queue, pending, taken, sending, armed, free, lost>>

Suspended ==
    /\ enabled
    /\ enabled' = FALSE /\ suspended' = TRUE
    /\ UNCHANGED <<pc, tx_queue, pending, taken, sending, armed, free, lost>>

\* A resume arms no read.
Resumed ==
    /\ suspended
    /\ enabled' = TRUE /\ suspended' = FALSE
    /\ UNCHANGED <<pc, tx_queue, pending, taken, sending, armed, free, lost>>

Offer == Send
Host == Enable \/ Disable \/ Suspended \/ Resumed \/ OutDone
Deliver ==
    \/ \E e \in Events : Put(e)
    \/ Kick \/ WorkSkip \/ WorkTake \/ WorkEnqueue \/ WorkRefused
    \/ InDone \/ InAborted \/ OutEnded

Next == Offer \/ Host \/ Deliver

Spec == Init /\ [][Next]_vars

\* The loop, the work queue and the stack go on, and a host that has the port
\* open reads it.
FairSpec ==
    /\ Spec
    /\ WF_vars(\E e \in Events : Put(e)) /\ WF_vars(Kick)
    /\ WF_vars(WorkSkip \/ WorkTake) /\ WF_vars(WorkEnqueue \/ WorkRefused)
    /\ WF_vars(InDone)

-----------------------------------------------------------------------------
(* Properties.                                                             *)

TypeOK ==
    /\ pc \in {"idle", "put", "kick"}
    /\ tx_queue \in Seq(Events) /\ Len(tx_queue) <= Slots
    /\ pending \in BOOLEAN
    /\ taken \in Seq(Events)
    /\ sending \in Seq(Seq(Events))
    /\ armed \in Nat /\ free \in Nat
    /\ enabled \in BOOLEAN /\ suspended \in BOOLEAN /\ lost \in BOOLEAN

\* Every buffer of the pool is in one place: none leaks on a refused enqueue or
\* an abort, none is returned twice.
BuffersBalance ==
    free + armed + Len(sending) + (IF taken = <<>> THEN 0 ELSE 1) = Buffers

\* While the port is up exactly one read is armed, however the sending side uses
\* the pool, until a read ends under suspend or is refused: a completion always
\* finds the buffer it gives back.  Never is more than one armed.
SinkIsKept == armed <= 1 /\ (enabled /\ ~lost => armed = 1)

\* No event waits in the ring with nobody about to send it, in whatever state
\* the port is: the work is queued, a transfer under way will queue it, or the
\* loop is about to.  A work item that finds no buffer leaves the events to the
\* completions, which is right since reads never use up the pool.
NothingStranded ==
    tx_queue # <<>> => pending \/ sending # <<>> \/ pc = "kick"

\* Events reach the host in order and once, and while the port is up none that
\* was accepted is lost.
PORT == INSTANCE MidiPort WITH
    queue <- FlattenSeq(sending) \o taken \o tx_queue, up <- enabled

ImplementsMidiPort == PORT!Spec

\* Once the loop and the host's configuring come to rest, the ring drains.
QuietDrains ==
    <>[][Deliver]_vars => <>[](enabled => tx_queue = <<>> /\ sending = <<>>)
=============================================================================
