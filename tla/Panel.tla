------------------------------- MODULE Panel -------------------------------
(***************************************************************************)
(* Power, the function button (Fn) and the button scan: from one reset of  *)
(* the chip to the next (main.c with buttons.c and mode.c).  A reset leads *)
(* to the charge-standby gate or straight to the control loop; the loop    *)
(* leaves by a long hold of Fn (SYSTEMOFF), by the Track 1 + 4 combo (the  *)
(* bootloader), by a fault or by a hang that the watchdog ends.            *)
(*                                                                         *)
(* The hands move Fn and the USB plug between any two steps; the ladders   *)
(* read whatever they read at each scan, noise included.  External: the    *)
(* bootloader hands over with the watchdog running or not; the chip        *)
(* collects the reasons of its resets in a register until it is cleared.   *)
(* What the consumed combos do is in Notes and Faders.                     *)
(***************************************************************************)
EXTENDS Buttons, FiniteSets

CONSTANTS
    HoldTicks,  \* ticks of a bare Fn hold that switch off, 625
    GateTicks,  \* polls of an Fn hold that switch on, 600 ms of 40 ms each
    TrackCodes, \* what the tracks ladder may read
    VolCodes    \* what the volume ladder may read

ASSUME PanelAssumption ==
    /\ HoldTicks \in Nat \ {0} /\ GateTicks \in Nat \ {0}
    /\ TrackCodes \subseteq Code /\ VolCodes \subseteq Code

VARIABLES
    power,     \* where the device is: off, boot, gate, release, run, park,
               \* settle, loader, hung
    fn,        \* Fn is pressed
    usb,       \* USB power is present
    reas,      \* RESETREAS
    wdt,       \* the watchdog counts
    pressed,   \* hold_t of the gate, in polls; 0 is "not pressed"
    pc,        \* the tick's progress: fn, scan, route
    func_armed, func_down,
    held,      \* ticks of the hold so far
    btn,       \* g_state of the scan
    evt,       \* its edges still to be routed
    combo,     \* g_combo: buttons whose press a combo consumed
    bare,      \* auxiliary: ticks since Fn went down in the loop, since the
               \* loop's last consumed press, or since the loop began
    letgo,     \* auxiliary: Fn has been up since the last reset, or since
               \* the hold that switches off
    cause,     \* auxiliary: what the last reset really was, until the loop runs
    age        \* auxiliary: for each ladder, scans since its last edge, up to 3

tick == <<pc, func_armed, func_down, held, btn, evt, combo, bare, age>>
vars == <<power, fn, usb, reas, wdt, pressed, tick, letgo, cause>>

Fresh == [trk |-> 3, vol |-> 3]

\* The RAM of the loop as a reset leaves it.
LoopReset ==
    /\ pc' = "fn" /\ func_armed' = FALSE /\ func_down' = FALSE /\ held' = 0
    /\ btn' = Released /\ evt' = <<>> /\ combo' = {}
    /\ bare' = 0 /\ age' = Fresh

Init ==
    /\ power = "boot"
    /\ fn \in BOOLEAN /\ usb \in BOOLEAN /\ wdt \in BOOLEAN
    /\ cause \in {"OFF", "DOG", "SREQ", "VBUS", "PIN"} /\ reas = {cause}
    /\ pressed = 0
    /\ pc = "fn" /\ func_armed = FALSE /\ func_down = FALSE /\ held = 0
    /\ btn = Released /\ evt = <<>> /\ combo = {}
    /\ bare = 0 /\ age = Fresh
    /\ letgo = ~fn

-----------------------------------------------------------------------------
(* The world: Fn, the plug, and the resets.                                *)

\* The chip resets for a reason and the bootloader starts the firmware.
Reset(why) ==
    /\ power' = "boot"
    /\ reas' = reas \cup {why} /\ cause' = why
    /\ wdt' \in BOOLEAN
    /\ pressed' = 0
    /\ LoopReset

\* Fn is the wake source of SYSTEMOFF, by level.
FnMoves ==
    /\ power # "off"
    /\ fn' = ~fn
    /\ letgo' = (letgo \/ ~fn')
    /\ UNCHANGED <<power, usb, reas, wdt, pressed, tick, cause>>

Wake ==
    /\ power = "off"
    /\ fn' = TRUE
    /\ letgo' = FALSE
    /\ Reset("OFF")
    /\ UNCHANGED usb

\* Plugging in wakes the device too.
Plug ==
    /\ usb' = ~usb
    /\ IF power = "off" /\ usb' THEN Reset("VBUS")
       ELSE UNCHANGED <<power, reas, wdt, pressed, tick, cause>>
    /\ letgo' = IF power = "off" THEN ~fn ELSE letgo
    /\ UNCHANGED fn

\* k_sys_fatal_error_handler restarts the system; so does the flasher.
Fault ==
    /\ power \in {"gate", "release", "run", "park"}
    /\ Reset("SREQ")
    /\ letgo' = ~fn
    /\ UNCHANGED <<fn, usb>>

\* A call that never returns.
Hang ==
    /\ power = "run"
    /\ power' = "hung"
    /\ UNCHANGED <<fn, usb, reas, wdt, pressed, tick, letgo, cause>>

Watchdog ==
    /\ power = "hung" /\ wdt
    /\ Reset("DOG")
    /\ letgo' = ~fn
    /\ UNCHANGED <<fn, usb>>

\* The bootloader is done with the new firmware.
Flashed ==
    /\ power = "loader"
    /\ Reset("SREQ")
    /\ letgo' = ~fn
    /\ UNCHANGED <<fn, usb>>

-----------------------------------------------------------------------------
(* Boot and the charge-standby gate.                                       *)

\* The gate's hold and the reasons of the reset are locals of what is left.
EnterLoop ==
    /\ power' = "run" /\ pressed' = 0 /\ cause' = "-"
    /\ LoopReset

\* Mutant: the reasons of a reset are left for the next one.
BootKeepsReasons ==
    /\ power = "boot"
    /\ wdt' = TRUE
    /\ IF reas \cap {"OFF", "DOG"} # {} THEN EnterLoop
       ELSE power' = "gate" /\ UNCHANGED <<pressed, tick, cause>>
    /\ UNCHANGED <<fn, usb, reas, letgo>>

\* Mutant: the watchdog is the bootloader's business.
BootLeavesDog ==
    /\ power = "boot"
    /\ reas' = {}
    /\ IF reas \cap {"OFF", "DOG"} # {} THEN EnterLoop
       ELSE power' = "gate" /\ UNCHANGED <<pressed, tick, cause>>
    /\ UNCHANGED <<fn, usb, wdt, letgo>>

\* The start of main: read and clear the reasons, see to the watchdog, and
\* pass the gate for a wake by Fn or a watchdog's reset.
Boot ==
    /\ power = "boot"
    /\ reas' = {}
    /\ wdt' = TRUE
    /\ IF reas \cap {"OFF", "DOG"} # {} THEN EnterLoop
       ELSE power' = "gate" /\ UNCHANGED <<pressed, tick, cause>>
    /\ UNCHANGED <<fn, usb, letgo>>

\* A poll of the gate that finds Fn down: after the hold, on.
GateHold ==
    /\ power = "gate" /\ fn
    /\ IF pressed >= GateTicks THEN power' = "release" /\ UNCHANGED pressed
       ELSE pressed' = pressed + 1 /\ UNCHANGED power
    /\ UNCHANGED <<fn, usb, reas, wdt, tick, letgo, cause>>

\* ... and one that finds it up: on battery, off.
GateIdle ==
    /\ power = "gate" /\ ~fn
    /\ pressed' = 0
    /\ IF usb THEN UNCHANGED <<power, letgo>>
       ELSE power' = "park" /\ letgo' = TRUE
    /\ UNCHANGED <<fn, usb, reas, wdt, tick, cause>>

\* The hold that switched on must end before the loop sees Fn.
GateReleased ==
    /\ power = "release" /\ ~fn
    /\ EnterLoop
    /\ UNCHANGED <<fn, usb, reas, wdt, letgo>>

-----------------------------------------------------------------------------
(* enter_bootloader: chords flushed and pins parked, wait until Fn is up,  *)
(* settle, arm the wake source, off.                                       *)

ParkReleased ==
    /\ power = "park" /\ ~fn
    /\ power' = "settle"
    /\ UNCHANGED <<fn, usb, reas, wdt, pressed, tick, letgo, cause>>

\* With Fn down again by now, the level wakes the device at once.
PowerOff ==
    /\ power = "settle"
    /\ IF fn THEN Reset("OFF") /\ letgo' = FALSE
       ELSE /\ power' = "off" /\ reas' = {} /\ wdt' = FALSE /\ pressed' = 0
            /\ LoopReset
            /\ UNCHANGED <<letgo, cause>>
    /\ UNCHANGED <<fn, usb>>

-----------------------------------------------------------------------------
(* The control loop.                                                       *)

\* The Fn level of the tick: a modifier, and a hold that switches off.
FnTick ==
    /\ power = "run" /\ pc = "fn"
    /\ func_armed' = (func_armed \/ ~fn)
    /\ held' = IF fn /\ func_armed THEN held + 1 ELSE 0
    /\ bare' = IF fn THEN (IF bare < HoldTicks THEN bare + 1 ELSE HoldTicks) ELSE 0
    /\ IF held' >= HoldTicks THEN power' = "park" /\ letgo' = FALSE /\ UNCHANGED <<func_down, pc>>
       ELSE func_down' = (fn /\ func_armed) /\ pc' = "scan" /\ UNCHANGED <<power, letgo>>
    /\ UNCHANGED <<fn, usb, reas, wdt, pressed, btn, evt, combo, age, cause>>

Older(n, edge) == IF edge THEN 0 ELSE IF n < 3 THEN n + 1 ELSE 3

\* Whatever the two ladders read.
ScanTick ==
    /\ power = "run" /\ pc = "scan"
    /\ \E trk \in TrackCodes, vol \in VolCodes : btn' = Scanned(btn, trk, vol)
    /\ evt' = ScanEdges(btn, btn')
    /\ age' = [trk |-> Older(age.trk, btn'.trk.committed # btn.trk.committed),
               vol |-> Older(age.vol, btn'.vol.committed # btn.vol.committed)]
    /\ pc' = "route"
    /\ UNCHANGED <<power, fn, usb, reas, wdt, pressed, func_armed, func_down, held,
                   combo, bare, letgo, cause>>

\* Mutant: a release is swallowed only while Fn is down.
EdgeNeedsFn ==
    /\ power = "run" /\ pc = "route" /\ evt # <<>>
    /\ LET e    == Head(evt)
           used == e.pressed /\ func_down /\ e.idx # Play
       IN  /\ combo' = IF used THEN combo \cup {e.idx}
                       ELSE IF e.pressed \/ ~func_down THEN combo ELSE combo \ {e.idx}
           /\ held' = IF used THEN 0 ELSE held
           /\ bare' = IF used THEN 0 ELSE bare
    /\ evt' = Tail(evt)
    /\ UNCHANGED <<power, fn, usb, reas, wdt, pressed, pc, func_armed, func_down,
                   btn, age, letgo, cause>>

\* Mutant: a consumed press leaves the hold alone.
EdgeHoldRuns ==
    /\ power = "run" /\ pc = "route" /\ evt # <<>>
    /\ LET e    == Head(evt)
           used == e.pressed /\ func_down /\ e.idx # Play
       IN  /\ combo' = IF used THEN combo \cup {e.idx}
                       ELSE IF e.pressed THEN combo ELSE combo \ {e.idx}
           /\ held' = held
           /\ bare' = IF used THEN 0 ELSE bare
    /\ evt' = Tail(evt)
    /\ UNCHANGED <<power, fn, usb, reas, wdt, pressed, pc, func_armed, func_down,
                   btn, age, letgo, cause>>

\* combo_dispatch of one edge: a press under Fn, but PLAY's, is consumed and
\* starts the hold again; a consumed press takes its release with it.
Edge ==
    /\ power = "run" /\ pc = "route" /\ evt # <<>>
    /\ LET e    == Head(evt)
           used == e.pressed /\ func_down /\ e.idx # Play
       IN  /\ combo' = IF used THEN combo \cup {e.idx}
                       ELSE IF e.pressed THEN combo ELSE combo \ {e.idx}
           /\ held' = IF used THEN 0 ELSE held
           /\ bare' = IF used THEN 0 ELSE bare
    /\ evt' = Tail(evt)
    /\ UNCHANGED <<power, fn, usb, reas, wdt, pressed, pc, func_armed, func_down,
                   btn, age, letgo, cause>>

\* The rest of the tick; a full combo hold enters the bootloader.
EndTick ==
    /\ power = "run" /\ pc = "route" /\ evt = <<>>
    /\ IF btn.dfu THEN power' = "loader" ELSE UNCHANGED power
    /\ pc' = "fn"
    /\ UNCHANGED <<fn, usb, reas, wdt, pressed, func_armed, func_down, held, btn,
                   evt, combo, bare, letgo, cause, age>>

World == FnMoves \/ Wake \/ Plug \/ Fault \/ Hang \/ Watchdog \/ Flashed

Firmware ==
    \/ Boot \/ GateHold \/ GateIdle \/ GateReleased \/ ParkReleased \/ PowerOff
    \/ FnTick \/ ScanTick \/ Edge \/ EndTick

Next == World \/ Firmware

Spec == Init /\ [][Next]_vars

\* The firmware runs, and the watchdog counts when it has been started.
FairSpec == Spec /\ WF_vars(Firmware) /\ WF_vars(Watchdog)

-----------------------------------------------------------------------------
(* Properties.                                                             *)

TypeOK ==
    /\ power \in {"off", "boot", "gate", "release", "run", "park", "settle", "loader", "hung"}
    /\ fn \in BOOLEAN /\ usb \in BOOLEAN /\ wdt \in BOOLEAN
    /\ cause \in {"OFF", "DOG", "SREQ", "VBUS", "PIN", "-"}
    /\ reas \subseteq {"OFF", "DOG", "SREQ", "VBUS", "PIN"}
    /\ pressed \in 0 .. GateTicks
    /\ pc \in {"fn", "scan", "route"}
    /\ func_armed \in BOOLEAN /\ func_down \in BOOLEAN
    /\ held \in 0 .. HoldTicks /\ bare \in 0 .. HoldTicks
    /\ btn \in ScanState
    /\ evt \in Seq([idx : ButtonIds, pressed : BOOLEAN])
    /\ combo \subseteq ButtonIds
    /\ letgo \in BOOLEAN
    /\ age \in [{"trk", "vol"} -> 0 .. 3]

\* The loop switches off only after HoldTicks ticks of Fn in a row without a
\* consumed press, of a hold that began after the boot (main.c, 792-796: on a
\* low battery the pin may read low at power-on; 895-897: a bare hold).
OffAfterBareHold ==
    [][(power = "run" /\ power' = "park") => bare' = HoldTicks /\ letgo]_vars

\* The device that switches off stays off until somebody presses Fn anew: the
\* hold itself never wakes it (main.c, 312-317).
HoldDoesNotRebound ==
    [][(power = "settle" /\ power' # power) => letgo]_vars

\* Who lets the device go off means it, and it stays off.
OffIsMeant == OffAfterBareHold /\ HoldDoesNotRebound

\* A reset that is neither a press of Fn nor the watchdog's starts nothing but
\* the gate, whatever earlier resets left in the register (main.c, 406-416: a
\* bare charge must not spin up the app), and the loop begins only when the
\* hold that opened the gate has ended.
GateGuardsTheLoop ==
    [][(power # "run" /\ power' = "run") =>
          \/ power = "boot" /\ cause \in {"OFF", "DOG"}
          \/ power = "release" /\ ~fn /\ pressed = GateTicks]_vars

\* The routing never sees a button of the tracks ladder pressed while the
\* bootloader combo is held (buttons.c, 170-173), once the debouncer has
\* followed into the band.
ComboIsSilent ==
    btn.scans >= 3 => btn.trk.committed = NoButton

\* What Notes takes from a scan is what the debouncers give.
TRACKS == INSTANCE LadderEvents WITH
    Values <- MaybeButton, None <- NoButton, Debounce <- 3,
    held <- btn.trk.committed, settled <- age.trk

VOLUME == INSTANCE LadderEvents WITH
    Values <- MaybeButton, None <- NoButton, Debounce <- 3,
    held <- btn.vol.committed, settled <- age.vol

ImplementsTrackEvents == TRACKS!Spec
ImplementsVolEvents == VOLUME!Spec

ImplementsLadderEvents == ImplementsTrackEvents /\ ImplementsVolEvents

\* A release is swallowed only for a press that was consumed, and no consumed
\* press is forgotten: what the combo latch holds is down, or its release is
\* still to be routed (mode.c, 45: swallow iff this idx was consumed).
LatchIsDown ==
    \A b \in combo :
        \/ btn.trk.committed = b \/ btn.vol.committed = b
        \/ \E k \in DOMAIN evt : evt[k].idx = b /\ ~evt[k].pressed

\* Nothing lingers that drains the cell: on battery with Fn up the gate ends in
\* SYSTEMOFF unless a hand interferes (main.c, 440), and a hang ends whatever the
\* bootloader left the watchdog doing (main.c, 240-252).
NothingLingers ==
    /\ (power = "gate" /\ ~usb /\ ~fn) ~> (power = "off" \/ usb \/ fn \/ power = "boot")
    /\ power = "hung" ~> power = "boot"
=============================================================================
