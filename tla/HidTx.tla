------------------------------- MODULE HidTx -------------------------------
(***************************************************************************)
(* The HID keyboard, from the held buttons to the host (kbd_hid.c,         *)
(* usb_hid.c).  The control loop builds a report of the held keys at each  *)
(* edge and puts it into a ring; a work item submits one report at a time  *)
(* from a buffer the USB stack reads in place; the stack's completion      *)
(* frees the buffer and schedules the work again.                          *)
(*   - The loop (main thread) is preemptible: its test of hid_enabled, its *)
(*     put and its scheduling of the work are three steps.                 *)
(*   - The work item runs on the system work queue; the stack may run      *)
(*     between its taking a report and the submission.                     *)
(*   - The USB stack's callbacks are one step each.                        *)
(* A transfer completes when the host polls; one that is under way when    *)
(* the host disables the interface is aborted, and completes too.  The     *)
(* stack may refuse a submission at any time, on a suspended bus for one:  *)
(* hid_ops has no hook for a suspend, so hid_enabled stays set there.      *)
(***************************************************************************)
EXTENDS Integers, SequencesExt, FiniteSetsExt

CONSTANTS
    HidButtons, \* the buttons
    Bindings,   \* what buttons may be bound to: records of a set mod of
                \* modifiers and a set key of at most one key
    MaxKeys,    \* key slots of a report, 6
    RingSlots   \* reports the ring holds, 8

ASSUME HidAssumption ==
    /\ MaxKeys \in Nat \ {0} /\ RingSlots \in Nat \ {0}
    /\ \A b \in Bindings : DOMAIN b = {"mod", "key"}

VARIABLES
    kbd,       \* kbd_state: the buttons down and what each was bound to then
    rpt,       \* the report the loop is about to put
    at,        \* the loop's place: "idle", "put", "kick"
    reports,   \* the reports waiting
    inflight,  \* hid_inflight, the buffer the stack reads
    busy,      \* hid_busy
    enabled,   \* hid_enabled, and the class's own flag
    pending,   \* the work item is queued
    work,      \* the work item's place: "idle", "submit"
    moving,    \* the stack has a transfer from the buffer
    host,      \* the report the host acts on
    refused,   \* auxiliary: the stack refused the last submission
    current    \* auxiliary: the loop's last report is in the ring, in the buffer
               \* or with the host: it was neither dropped, refused nor lost

loop == <<kbd, rpt, at>>
tx == <<reports, inflight, busy, work>>
hid_vars == <<loop, tx, enabled, pending, moving, host, refused, current>>

\* All slots carry ErrorRollOver.
Rollover == {"ErrorRollOver"}

\* kbd_build_report: all modifiers, each key once, or the rollover pattern.
Report(h) ==
    LET keys == UNION {h[b].key : b \in DOMAIN h}
    IN  [mod |-> UNION {h[b].mod : b \in DOMAIN h},
         key |-> IF Cardinality(keys) > MaxKeys THEN Rollover ELSE keys]

NothingHeld == [b \in {} |-> {}]
NoKeys == [mod |-> {}, key |-> {}]

HidInit ==
    /\ kbd = NothingHeld /\ rpt = NoKeys /\ at = "idle"
    /\ reports = <<>> /\ inflight = NoKeys /\ busy = FALSE /\ work = "idle"
    /\ enabled = FALSE /\ pending = FALSE /\ moving = FALSE
    /\ host = NoKeys
    /\ refused = FALSE /\ current = TRUE

-----------------------------------------------------------------------------
(* The control loop: an edge, then usb_hid_send_report.                    *)

\* kbd_send_held with the new held set: nothing is queued for a host that has
\* not enabled the interface.
SendHeld(h) ==
    /\ at = "idle"
    /\ kbd' = h
    /\ rpt' = Report(h)
    /\ IF enabled
       THEN at' = "put" /\ UNCHANGED current
       ELSE at' = "idle" /\ current' = FALSE
    /\ UNCHANGED <<tx, enabled, pending, moving, host, refused>>

Press(b) ==
    /\ b \notin DOMAIN kbd
    /\ \E k \in Bindings :
           SendHeld([c \in DOMAIN kbd \cup {b} |-> IF c = b THEN k ELSE kbd[c]])

Release(b) ==
    /\ b \in DOMAIN kbd
    /\ SendHeld([c \in DOMAIN kbd \ {b} |-> kbd[c]])

\* A mode flip by combo: kbd_state_reset, kbd_send_held.
Reset == SendHeld(NothingHeld)

\* Mutant: a full ring drops its oldest report.
PutOver ==
    /\ at = "put"
    /\ reports' = IF Len(reports) < RingSlots THEN Append(reports, rpt)
               ELSE <<rpt>> \o Tail(reports)
    /\ current' = TRUE /\ at' = "kick"
    /\ UNCHANGED <<kbd, rpt, inflight, busy, work, enabled, pending, moving,
                   host, refused>>

\* A full ring drops the report.
Put ==
    /\ at = "put"
    /\ IF Len(reports) < RingSlots
       THEN reports' = Append(reports, rpt) /\ current' = TRUE /\ at' = "kick"
       ELSE UNCHANGED reports /\ current' = FALSE /\ at' = "idle"
    /\ UNCHANGED <<kbd, rpt, inflight, busy, work, enabled, pending, moving,
                   host, refused>>

Kick ==
    /\ at = "kick"
    /\ pending' = TRUE
    /\ at' = "idle"
    /\ UNCHANGED <<kbd, rpt, tx, enabled, moving, host, refused, current>>

-----------------------------------------------------------------------------
(* The work item, hid_tx_work_fn.                                          *)

WorkSkip ==
    /\ work = "idle" /\ pending
    /\ busy \/ ~enabled \/ reports = <<>>
    /\ pending' = FALSE
    /\ UNCHANGED <<loop, tx, enabled, moving, host, refused, current>>

\* Mutant: busy is set after the submission has been made.
WorkTakeLate ==
    /\ work = "idle" /\ pending
    /\ ~busy /\ enabled /\ reports # <<>>
    /\ pending' = FALSE
    /\ inflight' = Head(reports)
    /\ reports' = Tail(reports)
    /\ work' = "submit"
    /\ UNCHANGED <<loop, busy, enabled, moving, host, refused, current>>

WorkTake ==
    /\ work = "idle" /\ pending
    /\ ~busy /\ enabled /\ reports # <<>>
    /\ pending' = FALSE
    /\ inflight' = Head(reports)
    /\ reports' = Tail(reports)
    /\ busy' = TRUE
    /\ work' = "submit"
    /\ UNCHANGED <<loop, enabled, moving, host, refused, current>>

\* hid_device_submit_report puts the report on its way, while the interface is
\* enabled,
WorkSubmit ==
    /\ work = "submit" /\ enabled
    /\ work' = "idle"
    /\ moving' = TRUE
    /\ refused' = FALSE
    /\ UNCHANGED <<loop, reports, inflight, busy, enabled, pending, host, current>>

\* Mutant: busy stays set.
WorkRefusedBusy ==
    /\ work = "submit"
    /\ work' = "idle"
    /\ refused' = TRUE
    /\ current' = (current /\ reports # <<>>)
    /\ UNCHANGED <<loop, reports, inflight, busy, enabled, pending, moving, host>>

\* or refuses it, whether or not the interface is: the report is dropped, and
\* those behind it wait for the next press.
WorkRefused ==
    /\ work = "submit"
    /\ work' = "idle"
    /\ busy' = FALSE
    /\ refused' = TRUE
    /\ current' = (current /\ reports # <<>>)
    /\ UNCHANGED <<loop, reports, inflight, enabled, pending, moving, host>>

-----------------------------------------------------------------------------
(* The USB stack's callbacks.                                              *)

\* Mutant: the completion does not schedule the work.
DoneQuiet ==
    /\ moving
    /\ moving' = FALSE
    /\ busy' = FALSE
    /\ host' = IF enabled THEN inflight ELSE host
    /\ UNCHANGED <<loop, reports, inflight, work, enabled, pending, refused, current>>

\* hid_input_report_done: the host has read the report, or, the interface
\* disabled, the transfer was aborted.
Done ==
    /\ moving
    /\ moving' = FALSE
    /\ busy' = FALSE
    /\ pending' = TRUE
    /\ host' = IF enabled THEN inflight ELSE host
    /\ UNCHANGED <<loop, reports, inflight, work, enabled, refused, current>>

\* hid_iface_ready(true), with no transfer left from before.
Enable ==
    /\ ~enabled /\ ~moving
    /\ enabled' = TRUE
    /\ pending' = TRUE
    /\ UNCHANGED <<loop, tx, moving, host, refused, current>>

\* hid_iface_ready(false): the host lets go of all keys, and what is on its way
\* is lost.
Disable ==
    /\ enabled
    /\ enabled' = FALSE
    /\ host' = NoKeys
    /\ current' = (current /\ reports # <<>>)
    /\ UNCHANGED <<loop, tx, pending, moving, refused>>

Hands == Reset \/ \E b \in HidButtons : Press(b) \/ Release(b)
Host == Enable \/ Disable
Deliver == Put \/ Kick \/ WorkSkip \/ WorkTake \/ WorkSubmit \/ WorkRefused \/ Done

HidNext == Hands \/ Host \/ Deliver

HidSpec == HidInit /\ [][HidNext]_hid_vars

\* The loop, the work queue and the stack go on, and a host that has enabled the
\* keyboard polls it.
FairSpec ==
    /\ HidSpec
    /\ WF_hid_vars(Put) /\ WF_hid_vars(Kick)
    /\ WF_hid_vars(WorkSkip \/ WorkTake) /\ WF_hid_vars(WorkSubmit \/ WorkRefused)
    /\ WF_hid_vars(Done)

-----------------------------------------------------------------------------
(* Properties.                                                             *)

Mods == UNION {k.mod : k \in Bindings}
Keys == UNION {k.key : k \in Bindings}
Reports == [mod : SUBSET Mods, key : SUBSET (Keys \cup Rollover)]

HidTypeOK ==
    /\ DOMAIN kbd \subseteq HidButtons
    /\ \A b \in DOMAIN kbd : kbd[b] \in Bindings
    /\ rpt \in Reports
    /\ at \in {"idle", "put", "kick"}
    /\ reports \in Seq(Reports) /\ Len(reports) <= RingSlots
    /\ inflight \in Reports /\ host \in Reports
    /\ busy \in BOOLEAN /\ enabled \in BOOLEAN /\ pending \in BOOLEAN
    /\ moving \in BOOLEAN /\ refused \in BOOLEAN /\ current \in BOOLEAN
    /\ work \in {"idle", "submit"}

\* What the host will act on once everything queued has arrived.
Final == IF reports # <<>> THEN Last(reports) ELSE IF busy THEN inflight ELSE host

\* As long as the last report was neither dropped (disabled, full), refused nor
\* lost (disabled on the way), what arrives last is what is held now, whatever was
\* dropped or refused before it and however often the interface went up and down.
HostSeesHeld == current /\ at # "put" => Final = Report(kbd)

\* The buffer the stack reads in place is not written during a transfer.
BufferIsStable == [][moving /\ moving' => inflight' = inflight]_hid_vars

\* hid_busy is set exactly while a report is on its way, so no report can be
\* submitted beside another and none can block the next for ever.
BusyIsTrue == busy <=> moving \/ work = "submit"

\* No report waits with nobody about to send it, but behind one that was refused
\* (usb_hid.c, 88-91: the next press starts the sending again).
NothingStranded ==
    enabled /\ reports # <<>> => busy \/ pending \/ at = "kick" \/ refused

\* Once hands and host rest the sending comes to rest too, and all that was queued
\* has arrived, unless the last submission was refused; a refusal, too, leaves the
\* sending free for the next press.
QuietSettles ==
    <>[][Deliver]_hid_vars => <>[](enabled => ~busy /\ (reports = <<>> \/ refused))
=============================================================================
